---- MODULE Spec2Model ----
(***************************************************************************)
(* Model of the source-analysis engine of tools/libs/ts.js (and its older  *)
(* copy tools/lib/ts.js): range replacement on source text, cross-file     *)
(* type resolution and inheritance flattening.                             *)
(***************************************************************************)
EXTENDS Integers, Sequences, FiniteSets, TLC

VARIABLES
    \* ---- Text/Range utility (changeSourceCode, changeSourceNode) ----
    sourceCode,     \* the text handed to changeSourceCode
    replacements,   \* the edit list handed over: [present, list]
    sourceNode,     \* the source file node handed to changeSourceNode
    changedCode,    \* what changeSourceCode returned last
    changedNode,    \* what changeSourceNode returned last
    parses,         \* number of TS.createSourceFile calls made so far
    op,             \* the operations run on the inputs held: a set of names
    \* ---- Type resolver (resolveType) ----
    fs,             \* the files on disk: path -> the Info list of its text
    sourceInfo,     \* the SourceInfo the caller holds: [path, code]
    pc,             \* "idle", "resolve", "extend", "returned", "raised"
    caller,         \* the top-level resolveType call: who made it, for which type
    frames,         \* the activations of resolveType, outermost first
    stack,          \* the keys of the guard map _stack
    ret,            \* the value an activation has just returned
    reads,          \* the paths read by FS.readFileSync in this top-level call
    result,         \* what the top-level resolveType call returned
    \* ---- Inheritance flattener (autoExtendInfo) ----
    ext,            \* the activation of autoExtendInfo
    \* ---- Doclets (addTag, removeTag, mergeDocletInfos) ----
    doclets,        \* the DocletInfo objects held: number -> its tags
    docletOp,       \* the last operation on them, and how it ended
    \* ---- Classification (getDocletInfosBetween, getImportInfo) ----
    tsNode,         \* the node of the TypeScript parser at hand
    classified      \* the Info made of it

editVars == <<sourceCode, replacements, sourceNode, changedCode, changedNode,
              parses, op>>

resolveVars == <<fs, sourceInfo, pc, caller, frames, stack, ret, reads,
                 result>>

docletVars == <<doclets, docletOp, tsNode, classified>>

vars == <<sourceCode, replacements, sourceNode, changedCode, changedNode,
          parses, op, fs, sourceInfo, pc, caller, frames, stack, ret, reads,
          result, ext, doclets, docletOp, tsNode, classified>>

-----------------------------------------------------------------------------
(* Bounds *)

MaxTextLen == 3
MaxEdits == 3

\* Cap on the depth of the resolveType recursion; the guard map keeps the
\* depth below it (DepthWithinCap).
MaxDepth == 5

\* Number of successive mergeDocletInfos calls on the doclets held.
MaxMerges == 2

-----------------------------------------------------------------------------
(* Strings are sequences of characters. *)

Alphabet == <<"a", "b", "c", "d", "e", "f", "g", "h">>

Min(a, b) == IF a < b THEN a ELSE b
Max(a, b) == IF a > b THEN a ELSE b

\* String.prototype.substring(a, b): both indexes are clamped to [0, length]
\* and swapped when a > b.
Substring(s, a, b) ==
    LET ca == Max(0, Min(a, Len(s)))
        cb == Max(0, Min(b, Len(s)))
        lo == Min(ca, cb)
        hi == Max(ca, cb)
    IN  SubSeq(s, lo + 1, hi)

\* String.prototype.substring(a): to the end of the string.
SubstringFrom(s, a) == Substring(s, a, Len(s))

\* A replacement is the triple [start, end, text] of the source, kept as a
\* record [start, end, text].
Replacement(s, e, t) == [start |-> s, end |-> e, text |-> t]

\* Array.prototype.sort((a, b) => b[0] - a[0]): a stable sort, descending
\* by start offset; entries with equal start keep their input order.
RECURSIVE InsertDescending(_, _)
InsertDescending(sorted, r) ==
    IF sorted = << >> THEN <<r>>
    ELSE IF Head(sorted).start >= r.start
         THEN <<Head(sorted)>> \o InsertDescending(Tail(sorted), r)
         ELSE <<r>> \o sorted

\* The list taken as it comes, the sort left out.
SortDescending_InputOrder(list) == list

RECURSIVE SortDescending(_)
SortDescending(list) ==
    IF list = << >> THEN << >>
    ELSE InsertDescending(SortDescending(SubSeq(list, 1, Len(list) - 1)),
                          list[Len(list)])

\* One pass of the loop body of changeSourceCode.
ApplyReplacement(code, r) ==
    Substring(code, 0, r.start) \o r.text \o SubstringFrom(code, r.end)

RECURSIVE ApplyAll(_, _)
ApplyAll(code, sorted) ==
    IF sorted = << >> THEN code
    ELSE ApplyAll(ApplyReplacement(code, Head(sorted)), Tail(sorted))

\* An absent (undefined) list and a present one.
Absent == [present |-> FALSE, list |-> << >>]
Present(list) == [present |-> TRUE, list |-> list]

changeSourceCode(code, repl) ==
    IF ~repl.present \/ Len(repl.list) = 0
    THEN code
    ELSE ApplyAll(code, SortDescending(repl.list))

\* TS.createSourceFile gives a new source file object; n is the number of
\* files parsed before, so that every parse yields a distinct object.
createSourceFile(fileName, text, n) ==
    [id |-> n + 1, fileName |-> fileName, text |-> text]

\* The early return left out: every call parses.
changeSourceNode_AlwaysParses(node, repl, n) ==
    createSourceFile(node.fileName, changeSourceCode(node.text, repl), n)

changeSourceNode(node, repl, n) ==
    IF ~repl.present \/ Len(repl.list) = 0
    THEN node
    ELSE createSourceFile(node.fileName, changeSourceCode(node.text, repl), n)

-----------------------------------------------------------------------------
(* Paths.  A path is a base name and its dotted suffixes, "B.d.ts" being    *)
(* [base |-> "B", exts |-> <<".d", ".ts">>]; all files stand in one         *)
(* directory, so that Path.resolve(Path.dirname(path), from) is `from`.     *)

PathOf(base, exts) == [base |-> base, exts |-> exts]

NoPath == PathOf("", << >>)

\* Path.extname: the last dotted suffix, or "" when there is none.
extname(path) ==
    IF path.exts = << >> THEN "" ELSE path.exts[Len(path.exts)]

\* resolvedPath.substring(0, resolvedPath.length - 3) on a path ending ".js".
StripLast(path) ==
    PathOf(path.base, SubSeq(path.exts, 1, Len(path.exts) - 1))

WithSuffix(path, suffixes) == PathOf(path.base, path.exts \o suffixes)

existsSync(files, path) == path \in DOMAIN files

\* The target path of an import: a trailing ".js" is dropped; a path without
\* suffix is probed as .d.ts, then as .ts, and is NoPath when neither is
\* there; a path that keeps a suffix is taken as it is.
ResolvePath(files, from) ==
    LET stripped == IF extname(from) = ".js" THEN StripLast(from) ELSE from
    IN  IF extname(stripped) = ""
        THEN IF existsSync(files, WithSuffix(stripped, <<".d", ".ts">>))
             THEN WithSuffix(stripped, <<".d", ".ts">>)
             ELSE IF existsSync(files, WithSuffix(stripped, <<".ts">>))
                  THEN WithSuffix(stripped, <<".ts">>)
                  ELSE NoPath
        ELSE stripped

-----------------------------------------------------------------------------
(* Info records *)

\* The name of a record that has none (property.name of a Doclet entry).
NoName == "undefined"

\* A member of a class or interface body: Property, Function or Doclet.
\* doclet is the number of the member's doclet, 0 when it has none.
Member(kind, name, doclet) ==
    [kind |-> kind, name |-> name, doclet |-> doclet, inherited |-> FALSE]

ClassInfo(name, extends, properties) ==
    [kind |-> "Class", name |-> name, extends |-> extends,
     properties |-> properties]

InterfaceInfo(name, extends, properties) ==
    [kind |-> "Interface", name |-> name, extends |-> extends,
     properties |-> properties]

VariableInfo(name) == [kind |-> "Variable", name |-> name]

FunctionInfo(name) == [kind |-> "Function", name |-> name]

\* imports: the entries of the `imports` object in key order, each the key
\* (the exported name, `item`) and its value (the local name).
ImportInfo(from, imports) ==
    [kind |-> "Import", from |-> from, imports |-> imports]

Binding(item, local) == [item |-> item, local |-> local]

\* An Export wrapping an object; its name is the object's name.
ExportOf(object) ==
    [kind |-> "Export", name |-> object.name, hasObject |-> TRUE,
     object |-> object]

\* `export default Foo`: a name and no object.
ExportNamed(name) ==
    [kind |-> "Export", name |-> name, hasObject |-> FALSE]

SourceInfo(path, code) == [kind |-> "Source", path |-> path, code |-> code]

\* getSourceInfo(path, FS.readFileSync(path)): the Info list of the file.
getSourceInfo(files, path) == SourceInfo(path, files[path])

-----------------------------------------------------------------------------
(* resolveType *)

Undefined == [found |-> FALSE]

ResolvedInfo(path, type, info, resolvedPath) ==
    [found |-> TRUE, kind |-> "Resolved", path |-> path, type |-> type,
     resolvedInfo |-> info, resolvedPath |-> resolvedPath]

NoRet == [pending |-> FALSE]
Returned(value) == [pending |-> TRUE, value |-> value]

\* An activation of resolveType: its arguments, the position of the loop
\* over sourceInfo.code (i) and of the loop over info.imports (j), and the
\* local resolvedPath.
Frame(source, type) ==
    [source |-> source, type |-> type, i |-> 1, j |-> 1,
     resolvedPath |-> NoPath]

Top == frames[Len(frames)]

Running == pc = "resolve" /\ frames # << >> /\ ~ret.pending

AtInfo == Running /\ Top.i <= Len(Top.source.code)

Info == Top.source.code[Top.i]

AtImportItem ==
    AtInfo /\ Info.kind = "Import" /\ Top.j <= Len(Info.imports)

Item == Info.imports[Top.j]

\* item === type || imports[item] === type
ItemMatches(item, type) == item.item = type \/ item.local = type

\* The recursive call asks for the local name.
ImportedName_Local(item) == item.local

\* resolveType(resolvedSource, item, _stack): the type asked of the imported
\* file is the key of the entry.
ImportedName(item) == item.item

\* The switch without its case of Export.
LocalMatches_NoExport(info, type) ==
    /\ info.kind \in {"Class", "Interface", "Object", "Variable"}
    /\ info.name = type

\* The switch with the case of Class, Interface, Object and Variable lost.
LocalMatches_ExportOnly(info, type) ==
    /\ info.kind = "Export"
    /\ info.hasObject /\ (info.name = type \/ info.object.name = type)

\* The switch over info.kind: the record a query for type finds in info.
LocalMatches(info, type) ==
    CASE info.kind = "Export" ->
            info.hasObject /\ (info.name = type \/ info.object.name = type)
      [] info.kind \in {"Class", "Interface", "Object", "Variable"} ->
            info.name = type
      [] OTHER -> FALSE

LocalFound(info) ==
    IF info.kind = "Export" THEN info.object ELSE info

WithTop(f) == [frames EXCEPT ![Len(frames)] = f]

\* The guard map never consulted.
OnStack_Never(resolvedPath) == FALSE

\* if (_stack[resolvedPath])
OnStack(resolvedPath) == resolvedPath \in stack

\* The keys of the guard map once every key is deleted after the call.
GuardMapAfter_Deleted(keys, resolvedPath, found) == keys \ {resolvedPath}

\* The keys of the guard map after the recursive call on resolvedPath:
\* delete _stack[resolvedPath] stands in the branch of a found import only.
GuardMapAfter(keys, resolvedPath, found) ==
    IF found THEN keys \ {resolvedPath} ELSE keys

\* An activation returns value: to its caller's activation, or, the
\* outermost one, to whoever called resolveType.
Return(value) ==
    /\ frames' = SubSeq(frames, 1, Len(frames) - 1)
    /\ IF Len(frames) = 1
       THEN /\ ret' = NoRet
            /\ result' = value
            /\ pc' = IF caller.who = "autoExtendInfo" THEN "extend" ELSE "returned"
       ELSE /\ ret' = Returned(value)
            /\ UNCHANGED <<result, pc>>

-----------------------------------------------------------------------------
(* autoExtendInfo and its helpers *)

\* Nothing is ever found.
extractInfo_Nothing(arr, name) == << >>

\* extractInfo(arr, name): the named records of arr that bear the name;
\* `undefined` instead of an empty list.
extractInfo(arr, name) ==
    SelectSeq(arr, LAMBDA info :
        /\ info.kind \in {"Class", "Function", "Interface", "Property",
                          "Variable"}
        /\ info.name = name)

Truthy(extractions) == Len(extractions) > 0

\* The parts a type statement falls into at TYPE_SPLIT are strings; their
\* length and the case of their first character are given for the parts
\* that occur.
ShortParts == {"", "T"}
LowerCaseParts == {"number", "string"}

NATIVE_TYPES ==
    {"Array", "Function", "NaN", "Number", "Object", "String", "Symbol"}

\* NATIVE_HELPER on a part, which holds no "<".
NATIVE_HELPER ==
    {"Array", "Extract", "Omit", "Partial", "Record", "Require"}

\* Names of TS.SyntaxKind with a number above 0 (some of them).
SyntaxKindNames == {"Parameter", "Block", "Identifier", "Constructor"}

isCapitalCase(text) == text \notin LowerCaseParts

isNativeType(type) ==
    \/ type \in ShortParts
    \/ ~isCapitalCase(type)
    \/ type \in NATIVE_TYPES
    \/ type \in NATIVE_HELPER
    \/ type \in SyntaxKindNames

\* list with item pushed unless list.includes(item)
PushNew(list, item) ==
    IF \E i \in 1..Len(list) : list[i] = item THEN list ELSE Append(list, item)

RECURSIVE PushAllNew(_, _)
PushAllNew(list, items) ==
    IF items = << >> THEN list
    ELSE PushAllNew(PushNew(list, Head(items)), Tail(items))

\* extractTypes(typeString): the parts of the statement that are no native
\* types, each once, in order.  typeString is given as its parts.
extractTypes(typeString) ==
    PushAllNew(<< >>, SelectSeq(typeString, LAMBDA part : ~isNativeType(part)))

\* The first loop of autoExtendInfo: extendsToDo.
RECURSIVE ExtendsToDo(_, _)
ExtendsToDo(todo, extendsTypes) ==
    IF extendsTypes = << >> THEN todo
    ELSE ExtendsToDo(PushAllNew(todo, extractTypes(Head(extendsTypes))),
                     Tail(extendsTypes))

\* newCodeInfo(template) of a member: a new record with the values of the
\* template; the doclet of the copy has the tags object of the template's.
newCodeInfo(template) ==
    [kind |-> template.kind, name |-> template.name,
     doclet |-> template.doclet, inherited |-> template.inherited]

\* The copy without the mark.
Inherit_Unmarked(property) == newCodeInfo(property)

\* property = newCodeInfo(property); property.inherited = true;
Inherit(property) == [newCodeInfo(property) EXCEPT !.inherited = TRUE]

\* The loop over resolvedInfo.properties.
RECURSIVE AppendInherited(_, _)
AppendInherited(properties, baseProperties) ==
    IF baseProperties = << >> THEN properties
    ELSE AppendInherited(
            IF Truthy(extractInfo(properties, Head(baseProperties).name))
            THEN properties
            ELSE Append(properties, Inherit(Head(baseProperties))),
            Tail(baseProperties))

-----------------------------------------------------------------------------
(* The files of the resolver and of the flattener *)

PathA == PathOf("A", <<".ts">>)
PathB == PathOf("B", <<".d", ".ts">>)
PathC == PathOf("C", <<".ts">>)

Files == {PathA, PathB, PathC}

\* Module specifiers, quotes and "./" taken off.
ToA == PathOf("A", << >>)               \* './A'
ToB == PathOf("B", <<".js">>)           \* './B.js'
ToC == PathOf("C", << >>)               \* './C'
ToMissing == PathOf("M", << >>)         \* './M', no such file
ToDotted == PathOf("M", <<".src", ".js">>)  \* './M.src.js', no such file

\* The types a user asks resolveType for.
Types == {"X", "Foo", "Bar"}

Cls(name) == ClassInfo(name, << >>, << >>)

\* import { X } from ... and import { X, Foo as Bar } from ...
ImportX(from) == ImportInfo(from, <<Binding("X", "X")>>)
ImportFooAsBar(from) ==
    ImportInfo(from, <<Binding("X", "X"), Binding("Foo", "Bar")>>)

\* The Info lists a file of the resolver scenarios may have; self, next and
\* other are the specifiers of the file itself and of the two other files.
ResolveChoices(self, next, other) ==
    { << >>,
      <<Cls("X")>>,
      <<Cls("Foo")>>,
      <<ExportOf(Cls("X"))>>,
      <<ImportX(next)>>,
      <<ImportX(other)>>,
      <<ImportFooAsBar(next)>>,
      <<Cls("X"), ImportX(next)>>,
      <<ImportX(next), Cls("X")>>,
      <<ImportX(next), ImportX(other)>>,
      <<ImportX(self), Cls("X")>>,
      <<ImportX(ToMissing), ImportX(next)>>,
      <<ImportX(ToDotted)>>,
      <<FunctionInfo("X"), ImportFooAsBar(next), Cls("Foo")>>,
      <<ExportNamed("X")>>,
      <<ExportNamed("X"), Cls("X")>> }

ResolveFileSystems ==
    {[p \in Files |->
        CASE p = PathA -> a
          [] p = PathB -> b
          [] p = PathC -> c] :
        a \in ResolveChoices(ToA, ToB, ToC),
        b \in ResolveChoices(ToB, ToC, ToA),
        c \in ResolveChoices(ToC, ToA, ToB)}

\* ---- the files of the flattener scenarios ----

\* The doclets of the members, by number: their tags.
TagsOf(doclet) ==
    CASE doclet = 1 -> [description |-> <<"d">>]
      [] doclet = 2 -> [description |-> <<"local">>]
      [] OTHER -> [description |-> <<"other">>]

Property(name, doclet) == Member("Property", name, doclet)
Function(name) == Member("Function", name, 0)
FreeDoclet(doclet) == Member("Doclet", NoName, doclet)

ChildProperties ==
    { << >>,
      <<Property("y", 0)>>,
      <<Property("foo", 2)>>,
      <<FreeDoclet(3), Function("foo"), Property("y", 0)>> }

\* Each entry of extends as the parts it splits into: `Base`, `Mixin`,
\* `Base<Options>`, `Nowhere`, `Array<T>`.
ChildExtends ==
    { <<<<"Base">>>>,
      <<<<"Base">>, <<"Mixin">>>>,
      <<<<"Mixin">>, <<"Base">>, <<"Mixin">>>>,
      <<<<"Base", "Options", "">>>>,
      <<<<"Nowhere">>, <<"Base">>>>,
      <<<<"Base">>, <<"Nowhere">>>>,
      <<<<"Array", "T", "">>>> }

BaseProperties ==
    { <<Property("x", 1)>>,
      <<Property("foo", 1), Property("x", 0)>>,
      <<FreeDoclet(4), Function("foo"), Function("foo"), Property("x", 1)>> }

MixinInfo ==
    InterfaceInfo("Mixin", << >>, <<Property("foo", 5), Property("z", 0)>>)

OptionsInfo == InterfaceInfo("Options", << >>, <<Property("opt", 0)>>)

RootInfo == InterfaceInfo("Root", << >>, <<Property("r", 0)>>)

ImportOf(from, name) == ImportInfo(from, <<Binding(name, name)>>)

\* Where Child and its bases stand: the three Info lists for a Child record
\* and a Base record.
Layouts(child, base) ==
    { \* all in one file
      <<<<base, child, MixinInfo, OptionsInfo>>, << >>, << >>>>,
      \* the bases imported from B
      <<<<ImportInfo(ToB, <<Binding("Base", "Base"),
                            Binding("Mixin", "Mixin")>>), child>>,
        <<base, MixinInfo>>, << >>>>,
      \* Base two imports away
      <<<<ImportOf(ToB, "Base"), child, MixinInfo>>,
        <<ImportOf(ToC, "Base")>>, <<base>>>>,
      \* Base is a variable
      <<<<VariableInfo("Base"), child, MixinInfo>>, << >>, << >>>>,
      \* Base behind a circular import
      <<<<ImportOf(ToB, "Base"), child, MixinInfo>>,
        <<ImportOf(ToA, "Base")>>, << >>>>,
      \* Base in a file that is not there
      <<<<ImportOf(ToDotted, "Base"), child>>, << >>, << >>>>,
      \* Base extends Root
      <<<<RootInfo, [base EXCEPT !.extends = <<<<"Root">>>>], child>>,
        << >>, << >>>> }

ExtendFileSystems ==
    {[p \in Files |->
        CASE p = PathA -> layout[1]
          [] p = PathB -> layout[2]
          [] p = PathC -> layout[3]] :
        layout \in UNION {Layouts(InterfaceInfo("Child", e, c),
                                  InterfaceInfo("Base", << >>, b)) :
                            e \in ChildExtends, c \in ChildProperties,
                            b \in BaseProperties}}

FileSystems == ResolveFileSystems \cup ExtendFileSystems

NoExt == [active |-> FALSE]

NoDocletOp ==
    [name |-> "none", target |-> 0, sources |-> << >>, tag |-> "",
     text |-> "", before |-> << >>, returned |-> << >>, raised |-> FALSE,
     count |-> 0]

NoNode == [kind |-> "none"]

NoInfo == [kind |-> "none"]

ClassifierUnused ==
    /\ tsNode = NoNode
    /\ classified = NoInfo

DocletsUnused ==
    /\ doclets = << >>
    /\ docletOp = NoDocletOp
    /\ ClassifierUnused

ResolverIdle ==
    /\ pc = "idle"
    /\ caller = [who |-> "none", type |-> NoName]
    /\ frames = << >>
    /\ stack = {}
    /\ ret = NoRet
    /\ reads = << >>
    /\ result = Undefined
    /\ ext = NoExt

\* The text/range utility has no files.
ResolverUnused ==
    /\ fs = << >>
    /\ sourceInfo = SourceInfo(NoPath, << >>)
    /\ ResolverIdle

-----------------------------------------------------------------------------
(* Inputs of the text/range utility *)

Texts == {SubSeq(Alphabet, 1, n) : n \in 0..MaxTextLen}

Inserted == {<< >>, <<"X">>, <<"Y", "Z">>}

RangesOf(text) ==
    {Replacement(s, e, t) : s \in 0..Len(text), e \in 0..Len(text),
                            t \in Inserted}

WithinText(text, r) == 0 <= r.start /\ r.start <= r.end /\ r.end <= Len(text)

\* Two ranges overlap when they share a character of the original text;
\* a zero-width range overlaps a range it lies strictly inside of.
Overlap(r1, r2) == r1.start < r2.end /\ r2.start < r1.end

NonOverlapping(list) ==
    \A i, j \in 1..Len(list) : i # j => ~Overlap(list[i], list[j])

DistinctStarts(list) ==
    \A i, j \in 1..Len(list) : i # j => list[i].start # list[j].start

RECURSIVE EditLists(_, _)
EditLists(text, n) ==
    IF n = 0 THEN {<< >>}
    ELSE LET shorter == EditLists(text, n - 1)
         IN  shorter \cup
             {Append(l, r) : l \in {x \in shorter : Len(x) = n - 1},
                             r \in {y \in RangesOf(text) : WithinText(text, y)}}

\* The scenario of the documentation: "abcdef" with [1,3,"X"] and [4,5,"Y"].
ScenarioText == SubSeq(Alphabet, 1, 6)
ScenarioEdits == <<Replacement(1, 3, <<"X">>), Replacement(4, 5, <<"Y">>)>>

InitEdits ==
    /\ \/ /\ sourceCode \in Texts
          /\ \E l \in {x \in EditLists(sourceCode, MaxEdits) : NonOverlapping(x)} :
                replacements \in {Present(l), Absent}
       \/ /\ sourceCode = ScenarioText
          /\ replacements = Present(ScenarioEdits)
    /\ sourceNode = createSourceFile("file.ts", sourceCode, 0)
    /\ changedCode = << >>
    /\ changedNode = sourceNode
    /\ parses = 1
    /\ op = {}
    /\ ResolverUnused
    /\ DocletsUnused

\* Array.prototype.sort works in place: after a call that got past the early
\* return the caller's list is the sorted one.
SortedInPlace(repl) ==
    IF ~repl.present \/ Len(repl.list) = 0
    THEN repl
    ELSE Present(SortDescending(repl.list))

\* A caller runs changeSourceCode on the text and list it holds.
ChangeSourceCode ==
    /\ "changeSourceCode" \notin op
    /\ changedCode' = changeSourceCode(sourceCode, replacements)
    /\ replacements' = SortedInPlace(replacements)
    /\ op' = op \cup {"changeSourceCode"}
    /\ UNCHANGED <<sourceCode, sourceNode, changedNode, parses>>
    /\ UNCHANGED <<resolveVars, ext, docletVars>>

\* A caller runs changeSourceNode on the node and list it holds.
ChangeSourceNode ==
    /\ "changeSourceNode" \notin op
    /\ changedNode' = changeSourceNode(sourceNode, replacements, parses)
    /\ parses' = IF changedNode'.id = sourceNode.id THEN parses ELSE parses + 1
    /\ replacements' = SortedInPlace(replacements)
    /\ op' = op \cup {"changeSourceNode"}
    /\ UNCHANGED <<sourceCode, sourceNode, changedCode>>
    /\ UNCHANGED <<resolveVars, ext, docletVars>>

\* A caller takes the changed text as the next source and holds an empty or
\* an absent list for it.
TakeChanged ==
    /\ "changeSourceCode" \in op
    /\ replacements.present /\ Len(replacements.list) > 0
    /\ sourceCode' = changedCode
    /\ replacements' \in {Present(<< >>), Absent}
    /\ sourceNode' = createSourceFile("file.ts", changedCode, parses)
    /\ changedNode' = sourceNode'
    /\ parses' = parses + 1
    /\ changedCode' = << >>
    /\ op' = {}
    /\ UNCHANGED <<resolveVars, ext, docletVars>>

NextEdits == ChangeSourceCode \/ ChangeSourceNode \/ TakeChanged

SpecEdits == InitEdits /\ [][NextEdits]_vars

-----------------------------------------------------------------------------
(* The resolver, one step per pass of its loops *)

EditsUnused ==
    /\ sourceCode = << >>
    /\ replacements = Absent
    /\ sourceNode = createSourceFile("file.ts", << >>, 0)
    /\ changedCode = << >>
    /\ changedNode = sourceNode
    /\ parses = 1
    /\ op = {}

\* The entry of a top-level call resolveType(source, type), _stack = {}.
Enter(source, type, who) ==
    /\ frames' = <<Frame(source, type)>>
    /\ stack' = {}
    /\ reads' = << >>
    /\ ret' = NoRet
    /\ result' = Undefined
    /\ caller' = [who |-> who, type |-> type]
    /\ pc' = "resolve"

\* A user calls resolveType(sourceInfo, type).
ResolveType(type) ==
    /\ pc = "idle"
    /\ Enter(sourceInfo, type, "user")
    /\ UNCHANGED <<docletVars, editVars, fs, sourceInfo, ext>>

\* The entry of the imports object is not the type asked for.
ImportNoMatch ==
    /\ AtImportItem
    /\ ~ItemMatches(Item, Top.type)
    /\ frames' = WithTop([Top EXCEPT !.j = @ + 1])
    /\ UNCHANGED <<docletVars, editVars, fs, sourceInfo, pc, caller, stack, ret, reads,
                   result, ext>>

\* The entry matches, and neither .d.ts nor .ts is there: continue.
ImportNotFound ==
    /\ AtImportItem
    /\ ItemMatches(Item, Top.type)
    /\ ResolvePath(fs, Info.from) = NoPath
    /\ frames' = WithTop([Top EXCEPT !.j = @ + 1, !.resolvedPath = NoPath])
    /\ UNCHANGED <<docletVars, editVars, fs, sourceInfo, pc, caller, stack, ret, reads,
                   result, ext>>

\* The entry matches and its path is in the guard map: return void 0.
ImportCircular ==
    /\ AtImportItem
    /\ ItemMatches(Item, Top.type)
    /\ ResolvePath(fs, Info.from) # NoPath
    /\ OnStack(ResolvePath(fs, Info.from))
    /\ Return(Undefined)
    /\ UNCHANGED <<docletVars, editVars, fs, sourceInfo, caller, stack, reads, ext>>

\* The entry matches and FS.readFileSync finds no file: it throws, and the
\* exception leaves every activation.
ImportThrows ==
    /\ AtImportItem
    /\ ItemMatches(Item, Top.type)
    /\ ResolvePath(fs, Info.from) # NoPath
    /\ ~OnStack(ResolvePath(fs, Info.from))
    /\ ~existsSync(fs, ResolvePath(fs, Info.from))
    /\ frames' = << >>
    /\ pc' = "raised"
    /\ UNCHANGED <<docletVars, editVars, fs, sourceInfo, caller, stack, ret, reads,
                   result, ext>>

\* The entry matches: the file is read and classified, entered into the
\* guard map, and resolveType is called on it for the key of the entry.
ImportEnter ==
    /\ AtImportItem
    /\ ItemMatches(Item, Top.type)
    /\ Len(frames) < MaxDepth
    /\ LET resolvedPath == ResolvePath(fs, Info.from)
       IN  /\ resolvedPath # NoPath
           /\ ~OnStack(resolvedPath)
           /\ existsSync(fs, resolvedPath)
           /\ reads' = Append(reads, resolvedPath)
           /\ stack' = stack \cup {resolvedPath}
           /\ frames' = Append(WithTop([Top EXCEPT !.resolvedPath = resolvedPath]),
                               Frame(getSourceInfo(fs, resolvedPath),
                                     ImportedName(Item)))
    /\ UNCHANGED <<docletVars, editVars, fs, sourceInfo, pc, caller, ret, result, ext>>

\* The recursive call returned nothing: on to the next entry.
ImportFailed ==
    /\ pc = "resolve" /\ frames # << >>
    /\ ret.pending /\ ~ret.value.found
    /\ frames' = WithTop([Top EXCEPT !.j = @ + 1])
    /\ ret' = NoRet
    /\ stack' = GuardMapAfter(stack, Top.resolvedPath, FALSE)
    /\ UNCHANGED <<docletVars, editVars, fs, sourceInfo, pc, caller, reads,
                   result, ext>>

\* The recursive call returned a ResolvedInfo: the path leaves the guard map
\* and the activation returns its own ResolvedInfo.
ImportFound ==
    /\ pc = "resolve" /\ frames # << >>
    /\ ret.pending /\ ret.value.found
    /\ stack' = GuardMapAfter(stack, Top.resolvedPath, TRUE)
    /\ Return(ResolvedInfo(Top.source.path, Top.type,
                           ret.value.resolvedInfo, ret.value.path))
    /\ UNCHANGED <<docletVars, editVars, fs, sourceInfo, caller, reads, ext>>

\* After the entries of an Import, or at any other record: the switch.
AtSwitch ==
    AtInfo /\ (Info.kind = "Import" => Top.j > Len(Info.imports))

LocalMatch ==
    /\ AtSwitch
    /\ LocalMatches(Info, Top.type)
    /\ Return(ResolvedInfo(Top.source.path, Top.type, LocalFound(Info),
                           Top.source.path))
    /\ UNCHANGED <<docletVars, editVars, fs, sourceInfo, caller, stack, reads, ext>>

LocalSkip ==
    /\ AtSwitch
    /\ ~LocalMatches(Info, Top.type)
    /\ frames' = WithTop([Top EXCEPT !.i = @ + 1, !.j = 1])
    /\ UNCHANGED <<docletVars, editVars, fs, sourceInfo, pc, caller, stack, ret, reads,
                   result, ext>>

\* The loop over sourceInfo.code is over: return void 0.
EndOfCode ==
    /\ Running
    /\ Top.i > Len(Top.source.code)
    /\ Return(Undefined)
    /\ UNCHANGED <<docletVars, editVars, fs, sourceInfo, caller, stack, reads, ext>>

ResolveStep ==
    \/ ImportNoMatch
    \/ ImportNotFound
    \/ ImportCircular
    \/ ImportThrows
    \/ ImportEnter
    \/ ImportFailed
    \/ ImportFound
    \/ LocalMatch
    \/ LocalSkip
    \/ EndOfCode

-----------------------------------------------------------------------------
(* The flattener: one step per pass of the loop over extendsToDo *)

InfoToExtend == sourceInfo.code[ext.n]

\* autoExtendInfo was called and is over.
Extended == ext.active /\ pc = "returned" /\ ext.calls = 1

\* autoExtendInfo was called a second time on the same info and is over.
ExtendedAgain == ext.active /\ pc = "returned" /\ ext.calls = 2

\* The entry of autoExtendInfo(sourceInfo, sourceInfo.code[n]), the calls-th
\* call on this info: extendsToDo is gathered.
EnterExtend(n, calls) ==
    /\ ext' = [active |-> TRUE, n |-> n, calls |-> calls,
               extendsToDo |-> ExtendsToDo(<< >>, sourceInfo.code[n].extends),
               k |-> 1, called |-> FALSE,
               before |-> sourceInfo.code[n].properties,
               resolved |-> << >>,
               outcome |-> "running", returned |-> "pending"]
    /\ pc' = "extend"
    /\ UNCHANGED <<docletVars, editVars, fs, sourceInfo, caller, frames, stack, ret,
                   reads, result>>

\* A user calls autoExtendInfo(sourceInfo, sourceInfo.code[n]).
AutoExtendInfo(n) ==
    /\ pc = "idle"
    /\ sourceInfo.code[n].kind \in {"Class", "Interface"}
    /\ EnterExtend(n, 1)

\* The user calls autoExtendInfo once more, with the same sourceInfo and the
\* info the first call has extended.
AutoExtendInfoAgain ==
    /\ Extended /\ ext.outcome = "ended"
    /\ docletOp.count = 0
    /\ EnterExtend(ext.n, 2)

InLoop ==
    pc = "extend" /\ ext.outcome = "running" /\ ext.k <= Len(ext.extendsToDo)

\* resolvedExtendType = resolveType(sourceInfo, extendType)
ExtendResolve ==
    /\ InLoop /\ ~ext.called
    /\ Enter(sourceInfo, ext.extendsToDo[ext.k], "autoExtendInfo")
    /\ ext' = [ext EXCEPT !.called = TRUE]
    /\ UNCHANGED <<docletVars, editVars, fs, sourceInfo>>

\* if (!resolvedExtendType) { return; }
ExtendAbort ==
    /\ InLoop /\ ext.called
    /\ ~result.found
    /\ ext' = [ext EXCEPT !.outcome = "aborted", !.returned = "undefined"]
    /\ pc' = "returned"
    /\ UNCHANGED <<docletVars, editVars, fs, sourceInfo, caller, frames, stack, ret,
                   reads, result>>

\* The resolved declaration is no class and no interface: continue.
ExtendSkip ==
    /\ InLoop /\ ext.called
    /\ result.found
    /\ result.resolvedInfo.kind \notin {"Class", "Interface"}
    /\ ext' = [ext EXCEPT !.k = @ + 1, !.called = FALSE,
                          !.resolved = Append(@, result.resolvedInfo)]
    /\ UNCHANGED <<docletVars, editVars, fs, sourceInfo, pc, caller, frames, stack, ret,
                   reads, result>>

\* The members of the resolved base are appended to infoToExtend.properties.
ExtendAppend ==
    /\ InLoop /\ ext.called
    /\ result.found
    /\ result.resolvedInfo.kind \in {"Class", "Interface"}
    /\ sourceInfo' =
         [sourceInfo EXCEPT !.code[ext.n].properties =
            AppendInherited(@, result.resolvedInfo.properties)]
    /\ ext' = [ext EXCEPT !.k = @ + 1, !.called = FALSE,
                          !.resolved = Append(@, result.resolvedInfo)]
    /\ UNCHANGED <<docletVars, editVars, fs, pc, caller, frames, stack, ret, reads,
                   result>>

\* The loop is over and the function ends without a return statement.
ExtendEnd ==
    /\ pc = "extend" /\ ext.outcome = "running"
    /\ ext.k > Len(ext.extendsToDo)
    /\ ext' = [ext EXCEPT !.outcome = "ended", !.returned = "undefined"]
    /\ pc' = "returned"
    /\ UNCHANGED <<docletVars, editVars, fs, sourceInfo, caller, frames, stack, ret,
                   reads, result>>

ExtendStep ==
    \/ ExtendResolve
    \/ ExtendAbort
    \/ ExtendSkip
    \/ ExtendAppend
    \/ ExtendEnd

-----------------------------------------------------------------------------
(* Doclets.  The tags object of a DocletInfo is the sequence of its own     *)
(* keys in insertion order, each with its value; a value is an array of     *)
(* texts, or, for a key that was read through to Object.prototype, the      *)
(* function found there.                                                    *)

ArrayValue(list) == [isArray |-> TRUE, list |-> list]

\* ({}).constructor: the function Object, no array.
ObjectConstructor == [isArray |-> FALSE, list |-> << >>]

\* The tag names that are names of Object.prototype too.
ObjectPrototype == {"constructor"}

TagEntry(tag, value) == [tag |-> tag, value |-> value]

HasOwn(tags, tag) == \E i \in 1..Len(tags) : tags[i].tag = tag

IndexOfTag(tags, tag) == CHOOSE i \in 1..Len(tags) : tags[i].tag = tag

\* tags[tag] || []: an object literal hands out what its prototype has for
\* a key it does not own.
OrEmpty(tags, tag) ==
    IF HasOwn(tags, tag) THEN tags[IndexOfTag(tags, tag)].value
    ELSE IF tag \in ObjectPrototype THEN ObjectConstructor
    ELSE ArrayValue(<< >>)

\* tags[tag] = value
SetTag(tags, tag, value) ==
    IF HasOwn(tags, tag)
    THEN [tags EXCEPT ![IndexOfTag(tags, tag)].value = value]
    ELSE Append(tags, TagEntry(tag, value))

Includes(list, value) == \E i \in 1..Len(list) : list[i] = value

\* newDocletInfo(): { kind: 'Doclet', tags: {} }
newDocletInfo == << >>

\* if (!targetTag.includes(value)) { targetTag.push(value); }
PushValue(list, value) ==
    IF Includes(list, value) THEN list ELSE Append(list, value)

\* The loop over sourceTags[tag]; st is the target's tags and whether a
\* TypeError was raised.  targetTag.includes is no function when targetTag
\* is none of an array.
RECURSIVE MergeValues(_, _, _)
MergeValues(st, tag, values) ==
    IF st.raised \/ values = << >> THEN st
    ELSE LET targetTag == st.tags[IndexOfTag(st.tags, tag)].value
         IN  IF ~targetTag.isArray
             THEN [st EXCEPT !.raised = TRUE]
             ELSE MergeValues(
                    [st EXCEPT !.tags =
                        SetTag(@, tag,
                               ArrayValue(PushValue(targetTag.list,
                                                    Head(values))))],
                    tag, Tail(values))

\* The loop over Object.keys(sourceTags), from key k on.  A value that is no
\* array is not iterable.
RECURSIVE MergeKeys(_, _, _)
MergeKeys(st, sourceTags, k) ==
    IF st.raised \/ k > Len(sourceTags) THEN st
    ELSE LET tag == sourceTags[k].tag
             own == [st EXCEPT !.tags = SetTag(@, tag, OrEmpty(@, tag))]
         IN  MergeKeys(
                IF ~sourceTags[k].value.isArray
                THEN [own EXCEPT !.raised = TRUE]
                ELSE MergeValues(own, tag, sourceTags[k].value.list),
                sourceTags, k + 1)

\* The loop over sourceDoclets.  held are the doclets by number, target the
\* number of the target (0: a new one), sources the numbers of the sources;
\* a source that is the target itself has the tags the target has by then.
RECURSIVE MergeSources(_, _, _, _)
MergeSources(st, held, target, sources) ==
    IF st.raised \/ sources = << >> THEN st
    ELSE MergeSources(
            MergeKeys(st,
                      IF Head(sources) = target THEN st.tags
                      ELSE held[Head(sources)],
                      1),
            held, target, Tail(sources))

\* mergeDocletInfos(targetDoclet, ...sourceDoclets): the tags of the doclet
\* returned, and whether the call raised instead of returning.
mergeDocletInfos(held, target, sources) ==
    MergeSources([tags |-> IF target = 0 THEN newDocletInfo ELSE held[target],
                  raised |-> FALSE],
                 held, target, sources)

\* addTag with tags[tag] = [] in place of tags[tag] = tags[tag] || [].
addTag_Overwriting(st, tag, text) ==
    LET made == [st EXCEPT !.tags = SetTag(@, tag, ArrayValue(<< >>))]
    IN  IF st.raised \/ Len(text) = 0 THEN made
        ELSE [made EXCEPT !.tags = SetTag(@, tag, ArrayValue(<<text>>))]

\* addTag(doclet, tag, text) on the tags st.tags: the key is made, and a text
\* that is not empty is pushed; push is no function of a value that is no
\* array.
addTag(st, tag, text) ==
    LET made == [st EXCEPT !.tags = SetTag(@, tag, OrEmpty(@, tag))]
        value == made.tags[IndexOfTag(made.tags, tag)].value
    IN  IF st.raised \/ Len(text) = 0 THEN made
        ELSE IF ~value.isArray THEN [made EXCEPT !.raised = TRUE]
        ELSE [made EXCEPT !.tags =
                SetTag(@, tag, ArrayValue(Append(value.list, text)))]

\* ---- the doclets held ----

TagNames == {"description", "param", "constructor"}

Tagged(tag, lists) ==
    {<< >>} \cup {<<TagEntry(tag, ArrayValue(l))>> : l \in lists}

\* Doclets as getDocletInfosBetween and addTag build them: some of the tags,
\* some with a value twice, some without a value.
DocletInfos ==
    {d \o p \o c :
        d \in Tagged("description",
                     {<<"a">>, <<"a", "b">>, <<"b", "a">>, <<"a", "a">>}),
        p \in Tagged("param", {<< >>, <<"b">>}),
        c \in Tagged("constructor", {<<"a">>})}

InitDoclets ==
    /\ doclets \in [1..2 -> DocletInfos]
    /\ docletOp = NoDocletOp
    /\ ClassifierUnused
    /\ EditsUnused
    /\ ResolverUnused

\* The ways the callers pass the two doclets as sources.
SourceLists == {<< >>, <<2>>, <<1, 2>>, <<2, 1>>, <<2, 2>>}

\* A caller merges sources into the doclet numbered target, or into none.
MergeDocletInfos(target, sources) ==
    /\ docletOp.count < MaxMerges
    /\ ~docletOp.raised
    /\ LET merged == mergeDocletInfos(doclets, target, sources)
       IN  /\ doclets' = IF target = 0 THEN doclets
                         ELSE [doclets EXCEPT ![target] = merged.tags]
           /\ docletOp' = [name |-> "mergeDocletInfos", target |-> target,
                           sources |-> sources, tag |-> "", text |-> "",
                           before |-> doclets,
                           returned |-> merged.tags,
                           raised |-> merged.raised,
                           count |-> docletOp.count + 1]
    /\ UNCHANGED <<editVars, resolveVars, ext, tsNode, classified>>

\* The texts a caller adds: a new one, one the doclets have, and none.
AddedTexts == {"c", "a", ""}

\* A caller adds a tag to the doclet numbered target.
AddTag(target, tag, text) ==
    /\ docletOp.count < MaxMerges
    /\ ~docletOp.raised
    /\ LET added == addTag([tags |-> doclets[target], raised |-> FALSE],
                           tag, text)
       IN  /\ doclets' = [doclets EXCEPT ![target] = added.tags]
           /\ docletOp' = [name |-> "addTag", target |-> target,
                           sources |-> << >>, tag |-> tag, text |-> text,
                           before |-> doclets,
                           returned |-> added.tags,
                           raised |-> added.raised,
                           count |-> docletOp.count + 1]
    /\ UNCHANGED <<editVars, resolveVars, ext, tsNode, classified>>

NextDoclets ==
    \/ \E target \in 0..1, sources \in SourceLists :
          MergeDocletInfos(target, sources)
    \/ \E tag \in {"description", "constructor"}, text \in AddedTexts :
          AddTag(1, tag, text)

SpecDoclets == InitDoclets /\ [][NextDoclets]_vars

-----------------------------------------------------------------------------
(* Classification of nodes.  The texts of a node are sequences of          *)
(* characters; the names of tags and identifiers are strings.               *)

WhiteSpace == {" ", "\n", "\t", "\r"}

RECURSIVE trimStart(_)
trimStart(text) ==
    IF text # << >> /\ Head(text) \in WhiteSpace
    THEN trimStart(Tail(text)) ELSE text

RECURSIVE trimEnd(_)
trimEnd(text) ==
    IF text # << >> /\ text[Len(text)] \in WhiteSpace
    THEN trimEnd(SubSeq(text, 1, Len(text) - 1)) ELSE text

\* String.prototype.trim
trim(text) == trimEnd(trimStart(text))

RECURSIVE SkipSpaces(_)
SkipSpaces(text) ==
    IF text # << >> /\ Head(text) = " " THEN SkipSpaces(Tail(text)) ELSE text

SkipAsterisk(text) ==
    IF text # << >> /\ Head(text) = "*" THEN Tail(text) ELSE text

\* .split(/\n *\*?/gu).join('\n'): a line break with the blanks and the one
\* asterisk after it becomes a line break.
RECURSIVE SplitJoinGutter(_)
SplitJoinGutter(text) ==
    IF text = << >> THEN << >>
    ELSE IF Head(text) = "\n"
         THEN <<"\n">> \o SplitJoinGutter(SkipAsterisk(SkipSpaces(Tail(text))))
         ELSE <<Head(text)>> \o SplitJoinGutter(Tail(text))

\* The text of a tag with the gutter left in.
TagText_GutterKept(tag) ==
    trim(trim(SubstringFrom(trim(tag.text), Len(tag.tagName) + 1)))

\* tag.getText().trim().substring(_tagName.length + 1).trim()
\*     .split(/\n *\*?/gu).join('\n').trim()
TagText(tag) ==
    trim(SplitJoinGutter(
            trim(SubstringFrom(trim(tag.text), Len(tag.tagName) + 1))))

\* c1.text + '\n' + c2.text + ...
RECURSIVE JoinLines(_)
JoinLines(texts) ==
    IF texts = << >> THEN << >>
    ELSE IF Len(texts) = 1 THEN Head(texts)
    ELSE Head(texts) \o <<"\n">> \o JoinLines(Tail(texts))

\* The description of a JSDoc node: node.comment is a string or an array of
\* parts with a text each.
Description(comment) ==
    IF comment.isArray THEN trim(JoinLines(comment.texts))
    ELSE trim(Head(comment.texts))

\* The loop over node.tags.
RECURSIVE AddTags(_, _)
AddTags(st, tags) ==
    IF tags = << >> THEN st
    ELSE AddTags(addTag(st, Head(tags).tagName, TagText(Head(tags))),
                 Tail(tags))

\* The DocletInfo getDocletInfosBetween makes of one JSDoc node.
DocletInfoOf(node) ==
    LET fresh == [tags |-> newDocletInfo, raised |-> FALSE]
        described ==
            IF node.hasComment
                /\ (node.comment.isArray \/ Head(node.comment.texts) # << >>)
            THEN addTag(fresh, "description", Description(node.comment))
            ELSE fresh
        tagged == AddTags(described, node.tags)
    IN  [kind |-> "Doclet", tags |-> tagged.tags, raised |-> tagged.raised]

\* The quote characters of SANITIZE_TEXT that a string literal of an import
\* can begin with.
QuoteCharacters == {"'", "\""}

\* The text as it is.
sanitizeText_Unchanged(text) == text

\* sanitizeText(text): text.replace(SANITIZE_TEXT, '$2'): a quote character
\* at the start that is the last character too goes with it.
sanitizeText(text) ==
    IF Len(text) >= 2 /\ Head(text) \in QuoteCharacters
        /\ text[Len(text)] = Head(text)
    THEN SubSeq(text, 2, Len(text) - 1)
    ELSE text

\* _imports[key] = value
SetImport(imports, key, value) ==
    IF \E i \in 1..Len(imports) : imports[i].item = key
    THEN [i \in 1..Len(imports) |->
            IF imports[i].item = key THEN Binding(key, value) ELSE imports[i]]
    ELSE Append(imports, Binding(key, value))

\* The loop over the import specifiers of the named imports.
RECURSIVE AddSpecifiers(_, _)
AddSpecifiers(imports, elements) ==
    IF elements = << >> THEN imports
    ELSE AddSpecifiers(
            SetImport(imports,
                      IF Head(elements).propertyName # NoName
                      THEN Head(elements).propertyName
                      ELSE Head(elements).name,
                      Head(elements).name),
            Tail(elements))

\* getImportInfo(node) of an import declaration.
getImportInfo(node) ==
    [kind |-> "Import",
     from |-> sanitizeText(node.moduleSpecifier),
     hasImports |-> node.hasClause,
     imports |->
        IF ~node.hasClause THEN << >>
        ELSE AddSpecifiers(
                IF node.name # NoName
                THEN SetImport(<< >>, "default", node.name) ELSE << >>,
                node.elements)]

\* ---- the nodes at hand ----

JSDocTag(tagName, text) == [tagName |-> tagName, text |-> text]

NoComment == [isArray |-> FALSE, texts |-> << >>]
Comment(text) == [isArray |-> FALSE, texts |-> <<text>>]
CommentParts(texts) == [isArray |-> TRUE, texts |-> texts]

JSDoc(comment, tags) ==
    [kind |-> "JSDoc", hasComment |-> comment # NoComment,
     comment |-> comment, tags |-> tags]

DoesAThing ==
    <<"D", "o", "e", "s", " ", "a", " ", "t", "h", "i", "n", "g", ".">>

ParamTagText ==
    <<"@", "p", "a", "r", "a", "m", " ", "{", "n", "u", "m", "b", "e",
      "r", "}", " ", "a", " ", "-", " ", "v", "a", "l", "u", "e",
      "\n", " ", "*", " ">>

ReturnTagText ==
    <<"@", "r", "e", "t", "u", "r", "n", " ", "{", "n", "u", "m", "b",
      "e", "r", "}", " ", "r", "e", "s", "u", "l", "t", " ">>

\* Tags as the parser hands them over: their text from the @ to where the
\* next tag or the end of the comment begins.
JSDocTags ==
    { JSDocTag("param", ParamTagText),
      JSDocTag("param", <<"@", "p", "a", "r", "a", "m", " ", "{", "n", "u", "m", "b", "e",
      "r", "}", " ", "a", " ", "-", " ", "v", "a", "l", "u", "e">>),
      JSDocTag("return", ReturnTagText),
      JSDocTag("return", <<"@", "r", "e", "t", "u", "r", "n", " ", "{", "n", "u", "m", "b",
      "e", "r", "}", " ", "r", "e", "s", "u", "l", "t", "\n", " ">>),
      JSDocTag("param", <<"@", "p", "a", "r", "a", "m", " ", "b", "\n", " ", " ", " ", "*",
      " ", "m", "o", "r", "e", "\n", " ", "*", " ">>),
      JSDocTag("private", <<"@", "p", "r", "i", "v", "a", "t", "e", "\n", " ", "*", " ">>) }

JSDocComments ==
    { NoComment,
      Comment(DoesAThing),
      Comment(<<" ", "D", "o", "e", "s", " ", "a", " ", "t", "h", "i", "n", "g",
      ".", "\n">>),
      CommentParts(<<<<"D", "o", "e", "s", " ">>, <<"a", " ", "t", "h", "i", "n", "g", ".">>>>) }

JSDocNodes ==
    {JSDoc(c, t) :
        c \in JSDocComments,
        t \in {<< >>} \cup {<<a>> : a \in JSDocTags}
                \cup {<<a, b>> : a \in JSDocTags, b \in JSDocTags}}

\* /** Does a thing.\n * @param {number} a - value\n * @return {number} result */
ScenarioJSDoc ==
    JSDoc(Comment(DoesAThing),
          <<JSDocTag("param", ParamTagText), JSDocTag("return", ReturnTagText)>>)

ImportSpecifier(propertyName, name) ==
    [propertyName |-> propertyName, name |-> name]

ImportDeclaration(moduleSpecifier, hasClause, name, elements) ==
    [kind |-> "ImportDeclaration", moduleSpecifier |-> moduleSpecifier,
     hasClause |-> hasClause, name |-> name, elements |-> elements]

OtherJsQuoted ==
    <<"'", ".", "/", "o", "t", "h", "e", "r", ".", "j", "s", "'">>

ModuleSpecifiers ==
    { OtherJsQuoted,
      <<"\"", ".", "/", "o", "t", "h", "e", "r", ".", "j", "s", "\"">>,
      <<"\"", ".", "/", "o", "'", "t", "h", "e", "r", "\"">>,
      <<"'", ".", "/", "o", "t", "h", "e", "r", ".", "s", "r", "c", ".",
      "j", "s", "'">>,
      <<"'", "t", "y", "p", "e", "s", "c", "r", "i", "p", "t", "'">> }

ImportClauses ==
    { <<FALSE, NoName, << >>>>,
      <<TRUE, "Other", << >>>>,
      <<TRUE, NoName, <<ImportSpecifier("Foo", "Bar")>>>>,
      <<TRUE, NoName, <<ImportSpecifier(NoName, "X")>>>>,
      <<TRUE, "Other", <<ImportSpecifier(NoName, "X"),
                          ImportSpecifier("Foo", "Bar")>>>>,
      <<TRUE, NoName, <<ImportSpecifier("Foo", "Bar"),
                        ImportSpecifier("Foo", "Baz")>>>> }

ImportNodes ==
    {ImportDeclaration(m, c[1], c[2], c[3]) :
        m \in ModuleSpecifiers, c \in ImportClauses}

\* import { Foo as Bar } from './other.js'
ScenarioImport ==
    ImportDeclaration(OtherJsQuoted, TRUE, NoName,
                      <<ImportSpecifier("Foo", "Bar")>>)

\* ---- getChildInfos: the nodes of a sibling sequence ----

\* A node of a sibling sequence.  pos is where its first token starts;
\* name is the node of its name (its kind, and the kinds of the elements of
\* a binding pattern); expression is the kind of the expression of an
\* AsExpression; leading are the doc-comment blocks between its full start
\* and its start, inner those of its own text outside its children;
\* children is what TS.forEachChild visits.  A block is the JSDoc node the
\* parser makes of it, with the place of the block in the source.
Name(kind, elements) == [kind |-> kind, elements |-> elements]

Identifier == Name("Identifier", << >>)

NoNameNode == Name("none", << >>)

Blocks(pos, leading, jsDocs) ==
    [k \in 1..Len(jsDocs) |->
        [block |-> [node |-> pos, leading |-> leading, k |-> k],
         jsDoc |-> jsDocs[k]]]

TsNode(kind, pos, name, expression, leading, inner, children) ==
    [kind |-> kind, pos |-> pos, name |-> name, expression |-> expression,
     leading |-> Blocks(pos, TRUE, leading),
     inner |-> Blocks(pos, FALSE, inner), children |-> children]

\* getNodesChildren(node)
getNodesChildren(node) == node.children

\* getInfoMeta(node): begin is node.getStart()
getInfoMeta(node) == [begin |-> node.pos]

\* The Info a recognizer makes of a node it accepts: its kind and its meta;
\* the doclet is what getChildInfos gives it.
ChildInfo(kind, node) ==
    [kind |-> kind, meta |-> getInfoMeta(node), doclet |-> NoInfo]

\* A TypeError leaves the recognizer and getChildInfos.
TypeError == [kind |-> "TypeError"]

\* TS.isArrayBindingPattern(node.name) || TS.isObjectBindingPattern(node.name)
IsBindingPattern(name) ==
    name.kind \in {"ArrayBindingPattern", "ObjectBindingPattern"}

getVariableInfo(node) ==
    IF \/ node.kind \notin {"TypeParameter", "Parameter",
                            "VariableDeclaration"}
       \/ IsBindingPattern(node.name)
    THEN NoInfo
    ELSE ChildInfo("Variable", node)

getPropertyInfo(node) ==
    IF node.kind \notin {"PropertyAssignment", "PropertyDeclaration",
                         "PropertySignature", "ShorthandPropertyAssignment"}
    THEN NoInfo
    ELSE ChildInfo("Property", node)

\* An AsExpression stands for its expression.
getObjectInfo(node) ==
    IF (IF node.kind = "AsExpression" THEN node.expression ELSE node.kind)
            # "ObjectLiteralExpression"
    THEN NoInfo
    ELSE ChildInfo("Object", node)

getInterfaceInfo(node) ==
    IF node.kind # "InterfaceDeclaration" THEN NoInfo
    ELSE ChildInfo("Interface", node)

\* getImportInfo of a node of a sibling sequence.
getImportInfoOf(node) ==
    IF node.kind # "ImportDeclaration" THEN NoInfo
    ELSE ChildInfo("Import", node)

getFunctionInfo(node) ==
    IF node.kind \notin {"Constructor", "FunctionDeclaration",
                         "MethodDeclaration"}
    THEN NoInfo
    ELSE ChildInfo("Function", node)

getExportInfo(node) ==
    IF node.kind # "ExportAssignment" THEN NoInfo
    ELSE ChildInfo("Export", node)

\* The loop over node.name.elements takes
\* (element.propertyName || element.name).text; the element of a hole of an
\* array pattern, an OmittedExpression, has neither.
getDeconstructInfos(node) ==
    IF node.kind \notin {"Parameter", "VariableDeclaration"} THEN NoInfo
    ELSE IF ~IsBindingPattern(node.name) THEN NoInfo
    ELSE IF \E e \in 1..Len(node.name.elements) :
                node.name.elements[e] = "OmittedExpression"
    THEN TypeError
    ELSE ChildInfo("Deconstruct", node)

getClassInfo(node) ==
    IF node.kind # "ClassDeclaration" THEN NoInfo
    ELSE ChildInfo("Class", node)

\* a || b
Or(a, b) == IF a.kind # "none" THEN a ELSE b

\* _child = getVariableInfo(node) || ... || getClassInfo(node)
Child(node) ==
    Or(getVariableInfo(node),
    Or(getPropertyInfo(node),
    Or(getObjectInfo(node),
    Or(getInterfaceInfo(node),
    Or(getImportInfoOf(node),
    Or(getFunctionInfo(node),
    Or(getExportInfo(node),
    Or(getDeconstructInfos(node),
       getClassInfo(node)))))))))

\* The doc-comment blocks of the full text of a node, in source order.
RECURSIVE BlocksIn(_)
RECURSIVE BlocksInAll(_)
BlocksIn(node) == node.leading \o node.inner \o BlocksInAll(node.children)

BlocksInAll(nodes) ==
    IF nodes = << >> THEN << >>
    ELSE BlocksIn(Head(nodes)) \o BlocksInAll(Tail(nodes))

\* getDocletsBetween(startNode, endNode) for the nodes at start and end of
\* the sequence: the matches of DOCLET in the text from the full start of
\* the node, when both are one node, and from the end of the start node
\* otherwise, to the start of the end node.
getDocletsBetween(nodes, start, end) ==
    IF start = end THEN nodes[end].leading
    ELSE BlocksInAll(SubSeq(nodes, start + 1, end - 1)) \o nodes[end].leading

\* getDocletInfosBetween(startNode, endNode): a DocletInfo of each.
getDocletInfosBetween(nodes, start, end) ==
    LET between == getDocletsBetween(nodes, start, end)
    IN  [k \in 1..Len(between) |->
            [kind |-> "Doclet", tags |-> DocletInfoOf(between[k].jsDoc).tags,
             block |-> between[k].block]]

\* The last doclet is given to the child whatever its tags.
Attaches_AnyDoclet(child, doclet) ==
    child.kind # "Export" /\ child.kind # "Import"

\* _child.kind !== 'Export' && _child.kind !== 'Import' &&
\* !_doclet.tags.apioption
Attaches(child, doclet) ==
    /\ child.kind # "Export"
    /\ child.kind # "Import"
    /\ ~HasOwn(doclet.tags, "apioption")

\* What the loop pushes for a child with the doclets before it.
Pushed(child, found) ==
    IF found # << >> /\ Attaches(child, found[Len(found)])
    THEN Append(SubSeq(found, 1, Len(found) - 1),
                [child EXCEPT !.doclet = found[Len(found)]])
    ELSE Append(found, child)

\* One turn of the loop as a record: the node, its child, the doclets found
\* for it and what was pushed.
Turn(node, child, found, pushed) ==
    [node |-> node, child |-> child, doclets |-> found, pushed |-> pushed]

\* getChildInfos(nodes): st has the infos pushed so far, whether a
\* TypeError was raised, and the turns of the loop.
RECURSIVE getChildInfos(_)
RECURSIVE ChildLoop(_, _, _, _)
ChildLoop(nodes, i, previousNode, st) ==
    IF st.raised \/ i > Len(nodes) THEN st
    ELSE IF nodes[i].kind = "EndOfFileToken" THEN st
    ELSE IF nodes[i].kind \in {"VariableDeclarationList", "VariableStatement"}
    THEN LET below == getChildInfos(getNodesChildren(nodes[i]))
         IN  ChildLoop(nodes, i + 1, previousNode,
                       [infos |-> st.infos \o below.infos,
                        raised |-> below.raised,
                        turns |-> st.turns \o below.turns])
    ELSE LET child == Child(nodes[i])
             found == getDocletInfosBetween(nodes, previousNode, i)
         IN  IF child.kind = "TypeError"
             THEN [st EXCEPT !.raised = TRUE,
                             !.turns = Append(@, Turn(nodes[i], child,
                                                      << >>, << >>))]
             ELSE IF child.kind = "none"
             THEN ChildLoop(nodes, i + 1, previousNode,
                    [st EXCEPT !.infos = @ \o found,
                               !.turns = Append(@, Turn(nodes[i], child,
                                                        found, found))])
             ELSE ChildLoop(nodes, i + 1, i,
                    [st EXCEPT !.infos = @ \o Pushed(child, found),
                               !.turns = Append(@, Turn(nodes[i], child, found,
                                                   Pushed(child, found)))])

getChildInfos(nodes) ==
    ChildLoop(nodes, 1, 1, [infos |-> << >>, raised |-> FALSE,
                            turns |-> << >>])

\* ---- the sibling sequences at hand ----

ApiOptionTagText ==
    <<"@", "a", "p", "i", "o", "p", "t", "i", "o", "n", " ", "x">>

\* /** @apioption x */
ApiOptionJSDoc == JSDoc(NoComment, <<JSDocTag("apioption", ApiOptionTagText)>>)

\* The doc-comment blocks before a node.
Leadings ==
    { << >>, <<ScenarioJSDoc>>, <<ScenarioJSDoc, ScenarioJSDoc>>,
      <<ApiOptionJSDoc>>, <<ScenarioJSDoc, ApiOptionJSDoc>>,
      <<ApiOptionJSDoc, ScenarioJSDoc>> }

FewLeadings == { << >>, <<ScenarioJSDoc>>, <<ScenarioJSDoc, ApiOptionJSDoc>> }

Leaf(kind, pos, name, leading) ==
    TsNode(kind, pos, name, "none", leading, << >>, << >>)

\* const x = ..., const [a, b] = ..., const [, b] = ..., const { a } = ...
BindingNames ==
    { Identifier,
      Name("ArrayBindingPattern", <<"BindingElement", "BindingElement">>),
      Name("ArrayBindingPattern", <<"OmittedExpression", "BindingElement">>),
      Name("ObjectBindingPattern", <<"BindingElement">>) }

\* /** ... */ const <name> = ...; : the statement, its declaration list and
\* the declaration.
VariableStatement(pos, name, leading) ==
    TsNode("VariableStatement", pos, NoNameNode, "none", leading, << >>,
           <<TsNode("VariableDeclarationList", pos * 10, NoNameNode, "none",
                    << >>, << >>,
                    <<Leaf("VariableDeclaration", pos * 10 + 1, name,
                           << >>)>>)>>)

\* The nodes of every kind the recognizers look for, and of kinds none
\* looks for, at the place pos.
NodesAt(pos, leadings) ==
    {Leaf(kind, pos, name, leading) :
        kind \in {"Parameter", "VariableDeclaration"},
        name \in BindingNames, leading \in leadings}
    \cup
    {Leaf(kind, pos, Identifier, leading) :
        kind \in {"TypeParameter", "PropertyAssignment",
                  "PropertyDeclaration", "PropertySignature",
                  "ShorthandPropertyAssignment", "InterfaceDeclaration",
                  "Constructor", "FunctionDeclaration", "MethodDeclaration",
                  "ClassDeclaration", "TypeAliasDeclaration"},
        leading \in leadings}
    \cup
    {TsNode(kind, pos, NoNameNode, expression, leading, << >>, << >>) :
        kind \in {"AsExpression"},
        expression \in {"ObjectLiteralExpression", "Identifier"},
        leading \in leadings}
    \cup
    {Leaf(kind, pos, NoNameNode, leading) :
        kind \in {"ObjectLiteralExpression", "ImportDeclaration",
                  "ExportAssignment", "ExpressionStatement",
                  "EndOfFileToken"},
        leading \in leadings}
    \cup
    {VariableStatement(pos, name, leading) :
        name \in BindingNames, leading \in leadings}

\* The statements of a file at the place pos.
StatementsAt(pos) ==
    {Leaf(kind, pos, NoNameNode, leading) :
        kind \in {"FunctionDeclaration", "ImportDeclaration",
                  "TypeAliasDeclaration"},
        leading \in FewLeadings}
    \cup
    {VariableStatement(pos, Identifier, leading) : leading \in FewLeadings}

NodeArray(nodes) == [kind |-> "NodeArray", nodes |-> nodes]

NodeArrays ==
    {NodeArray(<<a>>) : a \in NodesAt(1, Leadings)}
    \cup
    {NodeArray(<<a, b>>) : a \in StatementsAt(1), b \in StatementsAt(2)}
    \cup
    {NodeArray(<<a, b, c>>) :
        a \in StatementsAt(1), b \in StatementsAt(2), c \in StatementsAt(3)}

InitClassify ==
    /\ tsNode \in JSDocNodes \cup ImportNodes \cup NodeArrays
    /\ classified = NoInfo
    /\ doclets = << >>
    /\ docletOp = NoDocletOp
    /\ EditsUnused
    /\ ResolverUnused

\* getDocletInfosBetween comes to the JSDoc node of a doclet.
GetDocletInfosBetween ==
    /\ tsNode.kind = "JSDoc"
    /\ classified = NoInfo
    /\ classified' = DocletInfoOf(tsNode)
    /\ UNCHANGED <<editVars, resolveVars, ext, doclets, docletOp, tsNode>>

\* getChildInfos hands the node to getImportInfo.
GetImportInfo ==
    /\ tsNode.kind = "ImportDeclaration"
    /\ classified = NoInfo
    /\ classified' = getImportInfo(tsNode)
    /\ UNCHANGED <<editVars, resolveVars, ext, doclets, docletOp, tsNode>>

\* getChildInfos is called with the nodes of a sibling sequence.
GetChildInfos ==
    /\ tsNode.kind = "NodeArray"
    /\ classified = NoInfo
    /\ classified' =
         [kind |-> "Infos",
          infos |-> getChildInfos(tsNode.nodes).infos,
          raised |-> getChildInfos(tsNode.nodes).raised,
          turns |-> getChildInfos(tsNode.nodes).turns]
    /\ UNCHANGED <<editVars, resolveVars, ext, doclets, docletOp, tsNode>>

NextClassify == GetDocletInfosBetween \/ GetImportInfo \/ GetChildInfos

SpecClassify == InitClassify /\ [][NextClassify]_vars

-----------------------------------------------------------------------------
(* The files with their doclets: resolver, flattener and the tag            *)
(* operations of a caller on the members' doclets                           *)

\* The tags objects of the doclets of the members, by the number of the
\* doclet.  A member copied by newCodeInfo has a DocletInfo of its own whose
\* tags are the tags object of the template's doclet: tags is an object
\* without a kind, which newCodeInfo hands on as it is.  The number stands
\* for that object.
MemberDoclets ==
    [n \in 1..5 |->
        <<TagEntry("description", ArrayValue(TagsOf(n).description))>>]

Init ==
    /\ EditsUnused
    /\ doclets = MemberDoclets
    /\ docletOp = NoDocletOp
    /\ ClassifierUnused
    /\ fs \in FileSystems
    /\ \E p \in Files : sourceInfo = getSourceInfo(fs, p)
    /\ ResolverIdle

\* removeTag(doclet, tag): delete tags[tag]
removeTag(tags, tag) == SelectSeq(tags, LAMBDA entry : entry.tag # tag)

\* The classes and interfaces of the caller's file.
Declarations ==
    {r \in 1..Len(sourceInfo.code) :
        sourceInfo.code[r].kind \in {"Class", "Interface"}}

\* The tags object numbered n has become st.tags by the operation.
TagOperation(name, n, tag, text, st) ==
    /\ doclets' = [doclets EXCEPT ![n] = st.tags]
    /\ docletOp' = [name |-> name, target |-> n, sources |-> << >>,
                    tag |-> tag, text |-> text,
                    before |-> doclets, returned |-> st.tags,
                    raised |-> st.raised, count |-> docletOp.count + 1]
    /\ UNCHANGED <<editVars, resolveVars, ext, tsNode, classified>>

\* After autoExtendInfo a caller adds a tag to the doclet of member j of the
\* declaration r of the file.
AddTagToMember(r, j, tag, text) ==
    /\ Extended /\ ext.outcome = "ended"
    /\ docletOp.count = 0
    /\ sourceInfo.code[r].properties[j].doclet # 0
    /\ TagOperation("addTag", sourceInfo.code[r].properties[j].doclet,
                    tag, text,
                    addTag([tags |-> doclets[sourceInfo.code[r].properties[j].doclet],
                            raised |-> FALSE], tag, text))

\* After autoExtendInfo a caller removes a tag from the doclet of member j
\* of the declaration r of the file.
RemoveTagOfMember(r, j, tag) ==
    /\ Extended /\ ext.outcome = "ended"
    /\ docletOp.count = 0
    /\ sourceInfo.code[r].properties[j].doclet # 0
    /\ TagOperation("removeTag", sourceInfo.code[r].properties[j].doclet,
                    tag, "",
                    [tags |-> removeTag(doclets[sourceInfo.code[r].properties[j].doclet],
                                        tag),
                     raised |-> FALSE])

TagStep ==
    \E r \in Declarations :
        \E j \in 1..Len(sourceInfo.code[r].properties) :
            \/ AddTagToMember(r, j, "since", "1")
            \/ RemoveTagOfMember(r, j, "description")

Next ==
    \/ \E type \in Types : ResolveType(type)
    \/ \E n \in 1..Len(sourceInfo.code) : AutoExtendInfo(n)
    \/ AutoExtendInfoAgain
    \/ ResolveStep
    \/ ExtendStep
    \/ TagStep

Spec == Init /\ [][Next]_vars

\* resolveType and autoExtendInfo run to their end once called: nothing
\* suspends them.
FairSpec == Spec /\ WF_vars(ResolveStep \/ ExtendStep)

-----------------------------------------------------------------------------
(* Properties of the text/range utility *)

Orderings(n) ==
    {f \in [1..n -> 1..n] : \A i, j \in 1..n : i # j => f[i] # f[j]}

Permuted(list, f) == [i \in 1..Len(list) |-> list[f[i]]]

RECURSIVE Concat(_)
Concat(seqs) ==
    IF seqs = << >> THEN << >> ELSE Head(seqs) \o Concat(Tail(seqs))

\* The text that stands at offset p of the original text once every range is
\* replaced at the same time: what is inserted at p (zero-width ranges, in
\* list order), then the replacement of the range starting at p, then the
\* original character unless a range covers it.
PieceAt(text, list, p) ==
    LET inserts  == SelectSeq(list, LAMBDA r : r.start = p /\ r.end = p)
        replaces == SelectSeq(list, LAMBDA r : r.start = p /\ r.end > p)
        covered  == \E i \in 1..Len(list) :
                        list[i].start <= p /\ p < list[i].end
    IN  Concat([i \in 1..Len(inserts) |-> inserts[i].text])
        \o Concat([i \in 1..Len(replaces) |-> replaces[i].text])
        \o (IF p < Len(text) /\ ~covered THEN <<text[p + 1]>> ELSE << >>)

Simultaneous(text, list) ==
    Concat([q \in 1..(Len(text) + 1) |-> PieceAt(text, list, q - 1)])

\* Insertions at one and the same offset have no order among them, so each
\* order of the list gives an admissible outcome.
SimultaneousResults(text, list) ==
    {Simultaneous(text, Permuted(list, f)) : f \in Orderings(Len(list))}

EmptyOrAbsent(repl) == ~repl.present \/ Len(repl.list) = 0

\* C1: for non-overlapping edits within the text, changeSourceCode returns
\* the text in which every range is replaced simultaneously, all offsets
\* being those of the original text.
C1_SimultaneousReplacement ==
    ("changeSourceCode" \in op /\ NonOverlapping(replacements.list))
        => changedCode \in SimultaneousResults(sourceCode, replacements.list)

\* C2 as stated: for a non-overlapping edit set, changeSourceCode returns the
\* same text for every permutation of the list, insertions at one and the
\* same offset included.
C2_AnyOrderSameText ==
    ("changeSourceCode" \in op /\ NonOverlapping(replacements.list))
        => \A f \in Orderings(Len(replacements.list)) :
              changeSourceCode(sourceCode,
                               Present(Permuted(replacements.list, f)))
                  = changedCode

\* C2 as amended: for a non-overlapping edit set whose start offsets are
\* pairwise distinct, changeSourceCode returns the same text for every
\* permutation of the list.
C2_DistinctStartsAnyOrder ==
    ("changeSourceCode" \in op /\ NonOverlapping(replacements.list)
                               /\ DistinctStarts(replacements.list))
        => \A f \in Orderings(Len(replacements.list)) :
              changeSourceCode(sourceCode,
                               Present(Permuted(replacements.list, f)))
                  = changedCode

\* changeSourceCode has run on three edits with distinct starts that changed
\* the text.
C2_Witness ==
    /\ "changeSourceCode" \in op
    /\ Len(replacements.list) = 3
    /\ DistinctStarts(replacements.list)
    /\ NonOverlapping(replacements.list)
    /\ \A i \in 1..3 : replacements.list[i].text # << >>
    /\ changedCode # sourceCode

\* C3: with an empty or absent list changeSourceCode returns its input text
\* (also when that text is the outcome of an earlier changeSourceCode), and
\* changeSourceNode returns the very node it was given, parsing nothing.
C3_EmptyListNoOp ==
    [][EmptyOrAbsent(replacements) =>
          /\ ChangeSourceCode => changedCode' = sourceCode
          /\ ChangeSourceNode => (changedNode' = sourceNode /\ parses' = parses)
      ]_vars

\* Both operations have run with an empty or absent list on a text that an
\* earlier changeSourceCode produced.
C3_Witness ==
    /\ op = {"changeSourceCode", "changeSourceNode"}
    /\ EmptyOrAbsent(replacements)
    /\ parses >= 2
    /\ Len(sourceCode) > 0
    /\ sourceCode \notin Texts
    /\ changedCode = sourceCode
    /\ changedNode = sourceNode

-----------------------------------------------------------------------------
(* Properties of the resolver *)

Indexes(code) == 1..Len(code)

\* info is a record that bears the name: a declaration so named, or an
\* Export whose wrapped object is so named.
Named(info, name) ==
    /\ info.kind # "Import"
    /\ \/ info.name = name
       \/ info.kind = "Export" /\ info.hasObject /\ info.object.name = name

\* The declaration a record named `name` stands for.
DeclarationOf(info) ==
    IF info.kind = "Export" /\ info.hasObject THEN info.object ELSE info

Binds(info, name) ==
    /\ info.kind = "Import"
    /\ \E k \in 1..Len(info.imports) : ItemMatches(info.imports[k], name)

Involves(info, name) == Named(info, name) \/ Binds(info, name)

AllCode == {fs[p] : p \in DOMAIN fs} \cup {sourceInfo.code}

\* The names a name may stand for through the renamings of the imports.
OriginalsOf(names) ==
    names \cup
    UNION {UNION {IF code[i].kind = "Import"
                  THEN {code[i].imports[k].item :
                            k \in {m \in 1..Len(code[i].imports) :
                                      code[i].imports[m].local \in names}}
                  ELSE {} : i \in Indexes(code)} : code \in AllCode}

AllOriginals(name) == OriginalsOf(OriginalsOf(OriginalsOf({name})))

DeclaredSomewhere(names) ==
    \E code \in AllCode : \E i \in Indexes(code) : \E n \in names :
        Named(code[i], n)

\* No import names a file that is not there.
NoDanglingImport ==
    \A code \in AllCode : \A i \in Indexes(code) :
        code[i].kind = "Import" => code[i].from \notin {ToMissing, ToDotted}

Finished == pc \in {"returned", "raised"}

\* C4: every top-level resolveType call over a set of files and their import
\* graph, cycles included, comes to its end, the recursion never deeper than
\* one activation per file and one for the caller's SourceInfo; it returns
\* none when no file declares the name (or a name the imports rename it from).
C4_ResolveTerminates ==
    /\ (pc = "resolve") ~> Finished
    /\ [](Len(frames) <= Cardinality(Files) + 1)
    /\ []((pc = "returned" /\ NoDanglingImport
              /\ ~DeclaredSomewhere(AllOriginals(caller.type)))
            => ~result.found)

\* A call on files that import each other in a cycle of all three files has
\* returned none for a name no file declares.
C4_Witness ==
    /\ pc = "returned"
    /\ ~result.found
    /\ ~DeclaredSomewhere(AllOriginals(caller.type))
    /\ Len(reads) = 3
    /\ \A p \in Files : \E i \in Indexes(fs[p]) : Binds(fs[p][i], caller.type)

\* C5: whenever resolveType(F, X) returns a result, the file at resolvedPath
\* holds a top-level declaration named X (or an Export whose object is named
\* X) and resolvedInfo is that declaration, through any number of import hops
\* (for the local alias of a renamed import the exported name is let pass
\* for X here).
C5_ResultIsDeclarationNamedX ==
    (pc = "returned" /\ caller.who = "user" /\ result.found)
        => /\ result.resolvedPath \in DOMAIN fs
           /\ \E i \in Indexes(fs[result.resolvedPath]) :
                 /\ \E n \in AllOriginals(caller.type) :
                        Named(fs[result.resolvedPath][i], n)
                 /\ result.resolvedInfo
                        = DeclarationOf(fs[result.resolvedPath][i])

\* The record of code at which a pass in list order first meets the name.
FirstInvolving(code, name) ==
    IF \E i \in Indexes(code) : Involves(code[i], name)
    THEN CHOOSE i \in Indexes(code) :
            /\ Involves(code[i], name)
            /\ \A h \in 1..(i - 1) : ~Involves(code[h], name)
    ELSE 0

\* F has `import { Foo as Bar } from other` as the first record that has to
\* do with Bar, and other declares Foo before any import of Foo.
RenamedImportScenario ==
    LET n == FirstInvolving(sourceInfo.code, "Bar")
    IN  /\ n > 0
        /\ sourceInfo.code[n].kind = "Import"
        /\ \E k \in 1..Len(sourceInfo.code[n].imports) :
              /\ sourceInfo.code[n].imports[k] = Binding("Foo", "Bar")
              /\ \A h \in 1..(k - 1) :
                    ~ItemMatches(sourceInfo.code[n].imports[h], "Bar")
        /\ LET other == ResolvePath(fs, sourceInfo.code[n].from)
           IN  /\ other \in DOMAIN fs
               /\ FirstInvolving(fs[other], "Foo") > 0
               /\ Named(fs[other][FirstInvolving(fs[other], "Foo")], "Foo")

OtherOfScenario ==
    ResolvePath(fs, sourceInfo.code[FirstInvolving(sourceInfo.code, "Bar")].from)

\* C6: with `import { Foo as Bar } from './other.js'` in F and Foo declared
\* in ./other, resolveType(F, "Bar") succeeds and its resolvedInfo is the
\* declaration of Foo in ./other.
C6_AliasResolvesToOriginal ==
    (pc = "returned" /\ caller.type = "Bar" /\ RenamedImportScenario)
        => /\ result.found
           /\ result.type = "Bar"
           /\ result.resolvedInfo =
                DeclarationOf(fs[OtherOfScenario]
                                [FirstInvolving(fs[OtherOfScenario], "Foo")])
           /\ result.resolvedInfo.name = "Foo"
           /\ result.resolvedPath = OtherOfScenario

C6_Witness ==
    /\ pc = "returned"
    /\ caller.type = "Bar"
    /\ RenamedImportScenario
    /\ result.found
    /\ result.resolvedInfo.name = "Foo"

\* F holds a local declaration of the name before an Import that binds the
\* name to a declaration of the imported file.
\* info is a class, interface or variable declaration of the name.
LocalDeclaration(info, name) ==
    /\ info.kind \in {"Class", "Interface", "Variable"}
    /\ info.name = name

LocalBeforeImport ==
    \E a, b \in Indexes(sourceInfo.code) :
        /\ a < b
        /\ LocalDeclaration(sourceInfo.code[a], caller.type)
        /\ sourceInfo.code[b].kind = "Import"
        /\ \E k \in 1..Len(sourceInfo.code[b].imports) :
              /\ sourceInfo.code[b].imports[k].local = caller.type
              /\ LET target == ResolvePath(fs, sourceInfo.code[b].from)
                     item   == sourceInfo.code[b].imports[k].item
                 IN  /\ target \in DOMAIN fs
                     /\ target # sourceInfo.path
                     /\ FirstInvolving(fs[target], item) > 0
                     /\ Named(fs[target][FirstInvolving(fs[target], item)], item)

\* C7 as stated: all Import records are examined before any local record,
\* so that with a local declaration of X before an Import binding X to a
\* resolvable declaration the imported declaration is returned.
C7_ImportsBeforeLocals ==
    (pc = "returned" /\ LocalBeforeImport)
        => /\ result.found
           /\ result.resolvedPath # sourceInfo.path

\* C7 as amended: the records are examined in list order in one pass, an
\* Import when the pass reaches it: when the first record that has to do with
\* X is a local declaration X, resolveType(F, X) returns that declaration,
\* whatever Import binds X further down.
C7_ListOrderDecides ==
    (pc = "returned"
        /\ FirstInvolving(sourceInfo.code, caller.type) > 0
        /\ LocalDeclaration(sourceInfo.code[FirstInvolving(sourceInfo.code,
                                                           caller.type)],
                            caller.type))
        => /\ result.found
           /\ result.resolvedPath = sourceInfo.path
           /\ result.resolvedInfo =
                sourceInfo.code[FirstInvolving(sourceInfo.code, caller.type)]

C7_Witness ==
    /\ pc = "returned"
    /\ LocalBeforeImport
    /\ result.found
    /\ result.resolvedPath = sourceInfo.path

-----------------------------------------------------------------------------
(* Properties of the flattener *)

Properties == InfoToExtend.properties

Count(list, name) == Len(SelectSeq(list, LAMBDA m : m.name = name))

DeclaresMember(info, name) ==
    /\ info.kind \in {"Class", "Interface"}
    /\ \E i \in 1..Len(info.properties) : info.properties[i].name = name

\* C8: no inherited entry stands in the property list whose name is the name
\* of an entry before it: a member that the class or interface declares
\* itself stays the only one of its name, with inherited unset, and the first
\* inherited member of a name keeps later bases from adding that name.
C8_NoInheritedDuplicate ==
    /\ ext.active =>
          \A i, j \in 1..Len(Properties) :
              (i < j /\ Properties[j].inherited /\ Properties[j].name # NoName)
                  => Properties[i].name # Properties[j].name
    /\ (ext.active /\ ext.calls = 1) =>
          \A i \in 1..Len(ext.before) :
              /\ Properties[i] = ext.before[i]
              /\ ~Properties[i].inherited
              /\ Count(Properties, ext.before[i].name)
                    = Count(ext.before, ext.before[i].name)
                 \/ ext.before[i].name = NoName

\* Child declares foo once, a resolved base declares foo too and has given
\* Child another member; foo is in the list once and is not inherited.
C8_Witness ==
    /\ Extended
    /\ ext.outcome = "ended"
    /\ Count(ext.before, "foo") = 1
    /\ \E k \in 1..Len(ext.resolved) : DeclaresMember(ext.resolved[k], "foo")
    /\ Len(Properties) > Len(ext.before)
    /\ Count(Properties, "foo") = 1
    /\ \A i \in 1..Len(Properties) :
          Properties[i].name = "foo" => ~Properties[i].inherited

\* s is t with some of its entries left out.
RECURSIVE IsSubsequence(_, _)
IsSubsequence(s, t) ==
    IF s = << >> THEN TRUE
    ELSE IF t = << >> THEN FALSE
    ELSE IF Head(s) = Head(t) THEN IsSubsequence(Tail(s), Tail(t))
    ELSE IsSubsequence(s, Tail(t))

Suffix == SubSeq(Properties, Len(ext.before) + 1, Len(Properties))

\* The members of the resolved bases, base after base, as they would stand
\* once inherited.
RECURSIVE MembersOfBases(_)
MembersOfBases(bases) ==
    IF bases = << >> THEN << >>
    ELSE (IF Head(bases).kind \in {"Class", "Interface"}
          THEN [i \in 1..Len(Head(bases).properties) |->
                    [Head(bases).properties[i] EXCEPT !.inherited = TRUE]]
          ELSE << >>)
         \o MembersOfBases(Tail(bases))

\* C9: after an autoExtendInfo that ran to its end the property list is the
\* local list as it was, followed by the inherited members: base after base
\* in the order the identifiers were discovered in the extends entries, the
\* members of a base in its declared order, each with inherited = true and
\* the doclet of the base member; a member is left out only when its name is
\* in the list already.
C9_LocalThenInheritedInOrder ==
    (Extended /\ ext.outcome = "ended")
        => /\ SubSeq(Properties, 1, Len(ext.before)) = ext.before
           /\ \A i \in 1..Len(Suffix) : Suffix[i].inherited
           /\ IsSubsequence(Suffix, MembersOfBases(ext.resolved))
           /\ \A i \in 1..Len(MembersOfBases(ext.resolved)) :
                 \/ \E j \in 1..Len(Suffix) :
                        Suffix[j] = MembersOfBases(ext.resolved)[i]
                 \/ \E j \in 1..Len(Properties) :
                        /\ Properties[j].name = MembersOfBases(ext.resolved)[i].name
                        /\ Properties[j].name # NoName
           /\ Len(ext.resolved) = Len(ext.extendsToDo)
           /\ \A k \in 1..Len(ext.resolved) :
                 ext.resolved[k].name = ext.extendsToDo[k]
           /\ \A k, h \in 1..Len(ext.extendsToDo) :
                 (k < h) =>
                    \E a, b \in 1..Len(Concat(InfoToExtend.extends)) :
                        /\ a < b
                        /\ Concat(InfoToExtend.extends)[a] = ext.extendsToDo[k]
                        /\ Concat(InfoToExtend.extends)[b] = ext.extendsToDo[h]
                        /\ \A c \in 1..(b - 1) :
                              Concat(InfoToExtend.extends)[c] # ext.extendsToDo[h]

\* interface Base { /** d */ x } and interface Child extends Base { y }:
\* the list is [y, x (inherited, description "d")].
C9_Witness ==
    /\ Extended
    /\ ext.outcome = "ended"
    /\ ext.before = <<Property("y", 0)>>
    /\ Len(ext.resolved) = 1
    /\ ext.resolved[1].name = "Base"
    /\ ext.resolved[1].kind = "Interface"
    /\ ext.resolved[1].properties = <<Property("x", 1)>>
    /\ Len(Properties) = 2
    /\ Properties[1] = Property("y", 0)
    /\ Properties[2].name = "x"
    /\ Properties[2].inherited
    /\ TagsOf(Properties[2].doclet).description = <<"d">>

\* C10: autoExtendInfo returns the extended info record when every base-type
\* candidate resolves, and none only when a candidate does not resolve.
C10_ReturnsExtendedInfo ==
    Extended =>
        /\ ext.outcome = "ended" => ext.returned = "info"
        /\ ext.returned = "undefined" => ext.outcome = "aborted"

\* Child extends Base, Base extends Root, and all three are interfaces of
\* the file.
ChainScenario ==
    /\ ext.active
    /\ InfoToExtend.name = "Child"
    /\ \E k \in 1..Len(ext.extendsToDo) : ext.extendsToDo[k] = "Base"
    /\ \E i \in Indexes(sourceInfo.code) : sourceInfo.code[i] = RootInfo
    /\ \E i \in Indexes(sourceInfo.code) :
          /\ sourceInfo.code[i].kind = "Interface"
          /\ sourceInfo.code[i].name = "Base"
          /\ sourceInfo.code[i].extends = <<<<"Root">>>>

\* C11: after autoExtendInfo on Child, where Child extends Base and Base
\* extends Root, Child's property list holds the members of every ancestor,
\* those of Root included.
C11_AllAncestorsFlattened ==
    (Extended /\ ext.outcome = "ended" /\ ChainScenario)
        => \A i \in 1..Len(RootInfo.properties) :
              \E j \in 1..Len(Properties) :
                  Properties[j].name = RootInfo.properties[i].name

-----------------------------------------------------------------------------
(* Further properties of the resolver *)

PathsRead == {reads[i] : i \in 1..Len(reads)}

\* C14: resolveType never raises for a name it cannot resolve and never
\* tries to read a file that is not there: a matching import whose target
\* path does not exist is skipped, whatever the shape of its specifier.
C14_MissingTargetSkipped ==
    /\ pc # "raised"
    /\ \A path \in PathsRead : existsSync(fs, path)

\* The activation on top has come to an import of the type asked for whose
\* resolved path is a key of the guard map.
AtCircularHit ==
    /\ AtImportItem
    /\ ItemMatches(Item, Top.type)
    /\ ResolvePath(fs, Info.from) # NoPath
    /\ ResolvePath(fs, Info.from) \in stack

\* C17: during a top-level resolveType call no file is loaded and recursed
\* into while its resolved path is in the guard map of the call: an import
\* whose resolved path is in the map gives not-found in place of a recursive
\* call, and raises nothing.
C17_NoLoadOfGuardedPath ==
    [][/\ Len(reads') > Len(reads) =>
            /\ reads'[Len(reads')] \notin stack
            /\ reads'[Len(reads')] \in stack'
       /\ (Len(frames') > Len(frames) /\ Len(frames) > 0) =>
            /\ frames'[Len(frames')].source.path \notin stack
            /\ Len(reads') = Len(reads) + 1
       /\ AtCircularHit =>
            /\ reads' = reads
            /\ pc' # "raised"
            /\ Len(frames') = Len(frames) - 1
            /\ IF frames' = << >> THEN ~result'.found
               ELSE ret'.pending /\ ~ret'.value.found]_vars

\* A imports X from B and B imports X from A: the call for X in A has read B
\* and A, has met B in the guard map and has returned none.
C17_Witness ==
    /\ pc = "returned"
    /\ caller = [who |-> "user", type |-> "X"]
    /\ sourceInfo.path = PathA
    /\ fs[PathA] = <<ImportX(ToB)>>
    /\ fs[PathB] = <<ImportX(ToA)>>
    /\ reads = <<PathB, PathA>>
    /\ stack = {PathA, PathB}
    /\ ~result.found

\* The caller's file imports the type from another file G, and G imports it
\* from G itself before it declares it.
HitBeforeDeclaration ==
    LET n == FirstInvolving(sourceInfo.code, caller.type)
    IN  /\ n > 0
        /\ sourceInfo.code[n].kind = "Import"
        /\ sourceInfo.code[n] = ImportOf(sourceInfo.code[n].from, caller.type)
        /\ LET other == ResolvePath(fs, sourceInfo.code[n].from)
           IN  /\ other \in DOMAIN fs
               /\ other # sourceInfo.path
               /\ Len(fs[other]) = 2
               /\ fs[other][1].kind = "Import"
               /\ fs[other][1] = ImportOf(fs[other][1].from, caller.type)
               /\ ResolvePath(fs, fs[other][1].from) = other
               /\ LocalDeclaration(fs[other][2], caller.type)

\* C18: a circular-import hit fails only the import that caused it: the
\* remaining records of the file are still examined, so that a declaration
\* of the queried name later in the same file is returned.
C18_HitFailsOnlyTheImport ==
    (pc = "returned" /\ caller.who = "user" /\ HitBeforeDeclaration)
        => /\ result.found
           /\ result.resolvedInfo.name = caller.type

\* C19: a resolution that succeeded through imports returns path = the path
\* of the file the query started from, type = the name queried, resolvedInfo
\* = the declaration found and resolvedPath = the path of the file in which
\* that declaration stands, for chains of any length.
C19_ResultFields ==
    (pc = "returned" /\ caller.who = "user" /\ result.found
        /\ reads # << >>)
        => /\ result.path = sourceInfo.path
           /\ result.type = caller.type
           /\ result.resolvedPath \in DOMAIN fs
           /\ \E i \in Indexes(fs[result.resolvedPath]) :
                 /\ fs[result.resolvedPath][i].kind # "Import"
                 /\ DeclarationOf(fs[result.resolvedPath][i])
                        = result.resolvedInfo

\* C20: within one top-level resolveType call each resolved path is read and
\* parsed at most once, and nothing of an earlier call is used: every file
\* an activation works on, the caller's apart, and every key of the guard
\* map was read in this call.
C20_ReadAtMostOnce ==
    /\ \A i, j \in 1..Len(reads) : i # j => reads[i] # reads[j]
    /\ \A k \in 2..Len(frames) : frames[k].source.path \in PathsRead
    /\ pc = "resolve" => stack \subseteq PathsRead
    /\ (pc = "returned" /\ result.found
            /\ \A i \in Indexes(sourceInfo.code) :
                  DeclarationOf(sourceInfo.code[i]) # result.resolvedInfo)
          => reads # << >>

\* autoExtendInfo on a Child whose bases Base and Mixin are imported from B:
\* the call for Base has read B, and the call for Mixin has read it again;
\* and a call that came to the same path twice has read it once.
C20_Witness ==
    \/ /\ ext.active
       /\ ext.k = 2
       /\ ext.called
       /\ Len(ext.resolved) = 1
       /\ ext.resolved[1].name = "Base"
       /\ ext.resolved[1] \notin {sourceInfo.code[i] : i \in Indexes(sourceInfo.code)}
       /\ pc = "extend"
       /\ result.found
       /\ result.resolvedInfo.name = "Mixin"
       /\ reads = <<PathB>>
    \/ C17_Witness

\* No Import of the caller's file has to do with the type asked for: the
\* call is a scan of the local records.
LocalScan ==
    /\ pc = "returned"
    /\ caller.who = "user"
    /\ \A i \in Indexes(sourceInfo.code) : ~Binds(sourceInfo.code[i], caller.type)

\* An Export that wraps an object and bears the name itself or through its
\* object, or a Class, Interface, Object or Variable of the name.
MatchesLocally(info, name) ==
    \/ /\ info.kind = "Export"
       /\ info.hasObject
       /\ (info.name = name \/ info.object.name = name)
    \/ /\ info.kind \in {"Class", "Interface", "Object", "Variable"}
       /\ info.name = name

\* An Export with a name and without an object: export default Foo.
NameOnlyExport(info, name) ==
    info.kind = "Export" /\ ~info.hasObject /\ info.name = name

\* C21 as stated: an Export record matches the queried name also when it
\* has the name and no wrapped object (export default Foo), so that a scan
\* of a file with such an Export finds the name.
C21_NameOnlyExportMatches ==
    (LocalScan
        /\ \E i \in Indexes(sourceInfo.code) :
              NameOnlyExport(sourceInfo.code[i], caller.type))
        => result.found

\* C21: in the local scan an Export record matches the queried name when it
\* wraps an object and its own name or the name of the object is the name
\* asked for, and its object is returned; an Export with a name and without
\* an object never matches; Class, Interface, Object and Variable records
\* match by their name; the first matching record in list order is returned,
\* and none when no record matches.
C21_FirstLocalMatch ==
    LocalScan =>
        IF \E i \in Indexes(sourceInfo.code) :
                MatchesLocally(sourceInfo.code[i], caller.type)
        THEN LET first == CHOOSE i \in Indexes(sourceInfo.code) :
                    /\ MatchesLocally(sourceInfo.code[i], caller.type)
                    /\ \A h \in 1..(i - 1) :
                          ~MatchesLocally(sourceInfo.code[h], caller.type)
             IN  result = ResolvedInfo(sourceInfo.path, caller.type,
                                       DeclarationOf(sourceInfo.code[first]),
                                       sourceInfo.path)
        ELSE ~result.found

\* export default X stands before class X: the class is what is returned.
C21_Witness ==
    /\ LocalScan
    /\ sourceInfo.code = <<ExportNamed("X"), Cls("X")>>
    /\ caller.type = "X"
    /\ result.found
    /\ result.resolvedInfo = Cls("X")

\* The paths of the files entered by the recursive calls that have not
\* returned yet: every activation but the first belongs to one.
InProgress == {frames[k].source.path : k \in 2..Len(frames)}

\* C28: whenever an activation of a top-level resolveType call is at work,
\* the guard map holds exactly the paths of the files whose recursive
\* resolution has not returned yet; the path of a call that has returned,
\* with a ResolvedInfo or with nothing, is in it no more.
C28_GuardMapIsTheChain ==
    (frames # << >> /\ ~ret.pending) => stack = InProgress

-----------------------------------------------------------------------------
(* Further properties of the flattener *)

\* C22: flattening is all-or-nothing: when a base-type candidate does not
\* resolve, autoExtendInfo aborts and the property list is what it was
\* before the call, no member of an earlier base left appended.
C22_AbortLeavesListUnchanged ==
    (Extended /\ ext.outcome = "aborted") => Properties = ext.before

\* The caller has added a tag to or removed one from the doclet of a member.
TagOperated == docletOp.name \in {"addTag", "removeTag"}

\* The tags of the doclet were changed by the last tag operation.
TagsChanged(doclet) == doclets[doclet] # docletOp.before[doclet]

\* The member i of the declaration r of the same file is what the inherited
\* member was copied from.
CopiedFrom(copy, r, i) ==
    /\ r # ext.n
    /\ i \in 1..Len(sourceInfo.code[r].properties)
    /\ ~sourceInfo.code[r].properties[i].inherited
    /\ sourceInfo.code[r].properties[i].kind = copy.kind
    /\ sourceInfo.code[r].properties[i].name = copy.name
    /\ sourceInfo.code[r].properties[i].doclet # 0

\* C23: an inherited member shares no doclet state with the member of the
\* same file it was copied from: no addTag or removeTag after the call
\* changes the tags of the copy's doclet and those of the base member's
\* doclet together, whichever of the two it was applied to.
C23_CopySharesNoTags ==
    (Extended /\ TagOperated) =>
        \A j \in 1..Len(Properties) :
            (Properties[j].inherited /\ Properties[j].doclet # 0) =>
                \A r \in Declarations :
                    \A i \in 1..Len(sourceInfo.code[r].properties) :
                        CopiedFrom(Properties[j], r, i) =>
                            ~(/\ TagsChanged(Properties[j].doclet)
                              /\ TagsChanged(
                                   sourceInfo.code[r].properties[i].doclet))

\* C29: autoExtendInfo is idempotent: a second call with the same sourceInfo
\* on the info the first call has extended appends nothing, the property
\* list is after it what it was after the first call.
C29_SecondCallAppendsNothing ==
    (ExtendedAgain /\ ext.outcome = "ended") => Properties = ext.before

\* The names the extends entries of the info give as base types: the first
\* part of each entry; the parts after it are its type arguments.
BaseTypeNames ==
    {Head(InfoToExtend.extends[e]) : e \in 1..Len(InfoToExtend.extends)}

\* The member is a copy of a member of the k-th resolved declaration.
InheritedFrom(member, k) ==
    /\ ext.resolved[k].kind \in {"Class", "Interface"}
    /\ \E i \in 1..Len(ext.resolved[k].properties) :
          member = Inherit(ext.resolved[k].properties[i])

\* C30: every member autoExtendInfo has appended is a member of a
\* declaration that an extends entry names as a base type; a class or an
\* interface that is only a type argument of an entry, as Options in
\* Base<Options>, gives the info no member.
C30_OnlyBaseTypesContribute ==
    (Extended /\ ext.outcome = "ended") =>
        \A j \in (Len(ext.before) + 1)..Len(Properties) :
            \E k \in 1..Len(ext.resolved) :
                /\ ext.extendsToDo[k] \in BaseTypeNames
                /\ InheritedFrom(Properties[j], k)

-----------------------------------------------------------------------------
(* Properties of the doclet operations *)

Merged == docletOp.name = "mergeDocletInfos"

\* The target and the sources of the last call as they were before it.
TargetBefore ==
    IF docletOp.target = 0 THEN << >> ELSE docletOp.before[docletOp.target]

SourcesBefore ==
    [i \in 1..Len(docletOp.sources) |-> docletOp.before[docletOp.sources[i]]]

\* Whether the tag has a list of values in the tags, and the list (none for
\* an absent tag).
HasValueList(tags, tag) ==
    HasOwn(tags, tag) => tags[IndexOfTag(tags, tag)].value.isArray

ValueList(tags, tag) ==
    IF HasOwn(tags, tag) THEN tags[IndexOfTag(tags, tag)].value.list
    ELSE << >>

ValueSet(tags, tag) ==
    {ValueList(tags, tag)[i] : i \in 1..Len(ValueList(tags, tag))}

IsPrefix(s, t) == Len(s) <= Len(t) /\ SubSeq(t, 1, Len(s)) = s

RECURSIVE FirstOccurrences(_)
FirstOccurrences(seq) ==
    IF seq = << >> THEN << >>
    ELSE <<Head(seq)>> \o
         FirstOccurrences(SelectSeq(Tail(seq), LAMBDA v : v # Head(seq)))

\* The values of the tag over the sources in argument order.
SourceValues(tag) ==
    Concat([i \in 1..Len(SourcesBefore) |-> ValueList(SourcesBefore[i], tag)])

\* C12: mergeDocletInfos(target, ...sources) leaves, for every tag name,
\* target's previous value list as a prefix and appends each source value
\* that is not in target's list, in the order of first occurrence over the
\* sources; it appends no value already present and drops no value of
\* target or of a source.
C12_MergeAppendsFirstSeen ==
    Merged =>
        /\ ~docletOp.raised
        /\ \A tag \in TagNames :
              /\ HasValueList(docletOp.returned, tag)
              /\ IsPrefix(ValueList(TargetBefore, tag),
                          ValueList(docletOp.returned, tag))
              /\ ValueList(docletOp.returned, tag) =
                    ValueList(TargetBefore, tag) \o
                    FirstOccurrences(
                        SelectSeq(SourceValues(tag), LAMBDA v :
                            v \notin ValueSet(TargetBefore, tag)))
              /\ ValueSet(docletOp.returned, tag) =
                    ValueSet(TargetBefore, tag) \cup
                    UNION {ValueSet(SourcesBefore[i], tag) :
                              i \in 1..Len(SourcesBefore)}

\* C13: for doclets A and B and every tag name, the set of values under the
\* tag after mergeDocletInfos(A, B) is the set after mergeDocletInfos(B, A),
\* each call on copies of its own.
C13_MergeCommutesOnSets ==
    (Merged /\ docletOp.target = 1 /\ docletOp.sources = <<2>>)
        => LET other == mergeDocletInfos(docletOp.before, 2, <<1>>)
           IN  /\ ~docletOp.raised
               /\ ~other.raised
               /\ \A tag \in TagNames :
                     /\ HasValueList(docletOp.returned, tag)
                     /\ HasValueList(other.tags, tag)
                     /\ ValueSet(docletOp.returned, tag) =
                            ValueSet(other.tags, tag)

-----------------------------------------------------------------------------
(* Properties of the classification *)

Classified == classified # NoInfo

ParamText ==
    <<"{", "n", "u", "m", "b", "e", "r", "}", " ", "a", " ", "-", " ", "v", "a", "l", "u", "e">>

ResultText ==
    <<"r", "e", "s", "u", "l", "t">>

ReturnText ==
    <<"{", "n", "u", "m", "b", "e", "r", "}", " ", "r", "e", "s", "u", "l", "t">>

Other ==
    <<".", "/", "o", "t", "h", "e", "r">>

\* The tags of the node, of the name, whose stored text is not empty.
Occurrences(node, tagName) ==
    SelectSeq(node.tags, LAMBDA tag :
        tag.tagName = tagName /\ TagText(tag) # << >>)

\* A line break of the text with a gutter asterisk after it.
HasGutter(text) ==
    \E i \in 1..(Len(text) - 1) : text[i] = "\n" /\ text[i + 1] = "*"

\* The names of the tags of the nodes at hand.
JSDocTagNames == {"description", "param", "return", "private"}

\* { description: ["Does a thing."], param: ["{number} a - value"] }
ScenarioDescriptionAndParam ==
    <<TagEntry("description", ArrayValue(<<DoesAThing>>)),
      TagEntry("param", ArrayValue(<<ParamText>>))>>

\* Every tag of the node has its values one per occurrence and in their
\* order, each its text after the @name, trimmed and free of the gutter.
StoredTextsAreClean ==
    (Classified /\ tsNode.kind = "JSDoc") =>
        /\ ~classified.raised
        /\ \A tagName \in JSDocTagNames \ {"description"} :
              /\ HasValueList(classified.tags, tagName)
              /\ HasOwn(classified.tags, tagName)
                    <=> \E i \in 1..Len(tsNode.tags) :
                            tsNode.tags[i].tagName = tagName
              /\ Len(ValueList(classified.tags, tagName))
                    = Len(Occurrences(tsNode, tagName))
              /\ \A i \in 1..Len(ValueList(classified.tags, tagName)) :
                    LET text == ValueList(classified.tags, tagName)[i]
                        tag == Occurrences(tsNode, tagName)[i]
                    IN  /\ text # << >>
                        /\ trim(text) = text
                        /\ ~HasGutter(text)
                        /\ Head(text) # "@"
                        /\ Len(text) <= Len(tag.text) - Len(tagName) - 1
                        /\ IsSubsequence(text, SubstringFrom(tag.text,
                                                Len(tagName) + 1))

\* C15 as stated: the doclet block
\* /** Does a thing.\n * @param {number} a - value\n * @return {number} result */
\* parses to exactly description: ["Does a thing."],
\* param: ["{number} a - value"], return: ["result"].
C15_ScenarioAsStated ==
    (Classified /\ tsNode = ScenarioJSDoc) =>
        classified.tags =
            ScenarioDescriptionAndParam \o
            <<TagEntry("return", ArrayValue(<<ResultText>>))>>

\* C15: the block parses to exactly description: ["Does a thing."],
\* param: ["{number} a - value"], return: ["{number} result"]; for each tag
\* occurrence the stored text is the tag's full text with the @name prefix
\* stripped, gutter asterisks removed and trimmed, the type of the tag kept.
C15_ScenarioKeepsType ==
    /\ StoredTextsAreClean
    /\ (Classified /\ tsNode = ScenarioJSDoc) =>
          /\ classified.kind = "Doclet"
          /\ classified.tags =
                ScenarioDescriptionAndParam \o
                <<TagEntry("return", ArrayValue(<<ReturnText>>))>>

C15_Witness ==
    /\ tsNode = ScenarioJSDoc
    /\ Classified
    /\ Len(classified.tags) = 3
    /\ ~classified.raised

OtherJs ==
    <<".", "/", "o", "t", "h", "e", "r", ".", "j", "s">>

\* C16 as stated: `import { Foo as Bar } from './other.js'` classifies to an
\* ImportInfo with from './other' and imports exactly {Foo: 'Bar'}.
C16_ScenarioAsStated ==
    (Classified /\ tsNode = ScenarioImport) =>
        /\ classified.kind = "Import"
        /\ classified.from = Other
        /\ classified.imports = <<Binding("Foo", "Bar")>>

\* C16: the import classifies to an ImportInfo whose from is './other.js',
\* the specifier without its quotes and with its suffix, and whose imports
\* are exactly {Foo: 'Bar'}: the key the exported name, the value the local
\* name.
C16_ScenarioKeepsSuffix ==
    /\ (Classified /\ tsNode = ScenarioImport) =>
          /\ classified.kind = "Import"
          /\ classified.from = OtherJs
          /\ classified.hasImports
          /\ classified.imports = <<Binding("Foo", "Bar")>>
    /\ (Classified /\ tsNode.kind = "ImportDeclaration") =>
          /\ Len(classified.from) = Len(tsNode.moduleSpecifier) - 2
          /\ \A i \in 1..Len(classified.from) :
                classified.from[i] = tsNode.moduleSpecifier[i + 1]
          /\ \A i \in 1..Len(tsNode.elements) :
                \E k \in 1..Len(classified.imports) :
                    /\ classified.imports[k].item =
                          IF tsNode.elements[i].propertyName # NoName
                          THEN tsNode.elements[i].propertyName
                          ELSE tsNode.elements[i].name
                    /\ \E j \in i..Len(tsNode.elements) :
                          classified.imports[k].local = tsNode.elements[j].name

C16_Witness ==
    /\ tsNode = ScenarioImport
    /\ Classified
    /\ classified.kind = "Import"
    /\ Len(classified.imports) = 1

-----------------------------------------------------------------------------
(* Properties of sequences of addTag and mergeDocletInfos *)

\* A caller has added a tag or merged doclets.
Stored == docletOp.name \in {"addTag", "mergeDocletInfos"}

\* The tag names that are keys of the tags, key by key.
KeysOf(tags) == [k \in 1..Len(tags) |-> tags[k].tag]

\* What the tags held is held on: every key of before is a key of after, and
\* a list of values of before is the beginning of the list of after.
HeldOn(before, after) ==
    \A k \in 1..Len(before) :
        /\ HasOwn(after, before[k].tag)
        /\ before[k].value.isArray =>
              /\ after[IndexOfTag(after, before[k].tag)].value.isArray
              /\ IsPrefix(before[k].value.list,
                          ValueList(after, before[k].tag))

\* C26: a call of addTag or of mergeDocletInfos, whatever calls went before,
\* leaves every value stored under a tag name where it stood and adds new
\* values behind it only; a text addTag has stored is the last value of its
\* tag; every tag name is one key of the tags.  Lists that only grow at
\* their end keep, over any sequence of calls, every value ever stored in
\* the order of its first storing.
C26_ValuesOnlyAppended ==
    Stored =>
        /\ \A n \in DOMAIN doclets :
              /\ HeldOn(docletOp.before[n], doclets[n])
              /\ \A k, h \in 1..Len(doclets[n]) :
                    KeysOf(doclets[n])[k] = KeysOf(doclets[n])[h] => k = h
        /\ HeldOn(TargetBefore, docletOp.returned)
        /\ (docletOp.name = "addTag" /\ ~docletOp.raised
                /\ docletOp.text # "") =>
              /\ ValueList(docletOp.returned, docletOp.tag) =
                    Append(ValueList(TargetBefore, docletOp.tag),
                           docletOp.text)

\* The second call of a sequence adds a text to a tag of which the doclet
\* holds two values.
C26_Witness ==
    /\ docletOp.name = "addTag"
    /\ docletOp.count = 2
    /\ docletOp.tag = "description"
    /\ docletOp.text = "c"
    /\ ValueList(TargetBefore, "description") = <<"a", "b">>
    /\ ValueList(doclets[1], "description") = <<"a", "b", "c">>

-----------------------------------------------------------------------------
(* Properties of getChildInfos *)

\* getChildInfos was called with the sibling sequence.
ChildInfosMade == classified.kind = "Infos"

Turns == classified.turns

HasApiOption(doclet) ==
    \E k \in 1..Len(doclet.tags) : doclet.tags[k].tag = "apioption"

\* The declaration of the turn takes the last doclet found for it.
TakesLast(turn) ==
    /\ turn.doclets # << >>
    /\ turn.child.kind \notin {"Import", "Export"}
    /\ ~HasApiOption(turn.doclets[Len(turn.doclets)])

IsDeclaration(turn) == turn.child.kind \notin {"none", "TypeError"}

\* C24: of the doclets found in the gap of a classified declaration the
\* last one becomes the doclet of the declaration exactly when the
\* declaration is no Import and no Export and the doclet has no apioption
\* tag; all others, and the last one too when it is not taken, are entries
\* of the list right before the declaration, in source order.
C24_LastDocletAttached ==
    ChildInfosMade =>
        /\ classified.infos =
              Concat([t \in 1..Len(Turns) |-> Turns[t].pushed])
        /\ \A t \in 1..Len(Turns) :
              IsDeclaration(Turns[t]) =>
                  LET found == Turns[t].doclets
                      pushed == Turns[t].pushed
                      free == IF TakesLast(Turns[t]) THEN Len(found) - 1
                              ELSE Len(found)
                  IN  /\ Len(pushed) = free + 1
                      /\ \A k \in 1..free : pushed[k] = found[k]
                      /\ pushed[free + 1].kind = Turns[t].child.kind
                      /\ pushed[free + 1].meta = Turns[t].child.meta
                      /\ pushed[free + 1].doclet =
                            IF TakesLast(Turns[t]) THEN found[Len(found)]
                            ELSE NoInfo

\* Two doclets stand before a function, and one with an apioption tag stands
\* last before another: the first keeps a free-standing entry and takes the
\* second, the other takes none.
C24_Witness ==
    /\ ChildInfosMade
    /\ \E t \in 1..Len(Turns) :
          /\ Turns[t].child.kind = "Function"
          /\ Len(Turns[t].doclets) = 2
          /\ TakesLast(Turns[t])
          /\ Turns[t].pushed[1] = Turns[t].doclets[1]
          /\ Turns[t].pushed[2].doclet = Turns[t].doclets[2]
    /\ \E t \in 1..Len(Turns) :
          /\ Turns[t].child.kind = "Function"
          /\ Len(Turns[t].doclets) >= 2
          /\ HasApiOption(Turns[t].doclets[Len(Turns[t].doclets)])
          /\ Len(Turns[t].pushed) = Len(Turns[t].doclets) + 1

\* The recognizers in the order of getChildInfos, by the kind of their Info.
Recognizers ==
    <<"Variable", "Property", "Object", "Interface", "Import", "Function",
      "Export", "Deconstruct", "Class">>

Destructures(node) ==
    /\ node.kind \in {"Parameter", "VariableDeclaration"}
    /\ node.name.kind \in {"ArrayBindingPattern", "ObjectBindingPattern"}

\* The nodes a recognizer is for.
Accepts(recognizer, node) ==
    CASE recognizer = "Variable" ->
            /\ node.kind \in {"TypeParameter", "Parameter",
                              "VariableDeclaration"}
            /\ ~Destructures(node)
      [] recognizer = "Property" ->
            node.kind \in {"PropertyAssignment", "PropertyDeclaration",
                           "PropertySignature",
                           "ShorthandPropertyAssignment"}
      [] recognizer = "Object" ->
            \/ node.kind = "ObjectLiteralExpression"
            \/ /\ node.kind = "AsExpression"
               /\ node.expression = "ObjectLiteralExpression"
      [] recognizer = "Interface" -> node.kind = "InterfaceDeclaration"
      [] recognizer = "Import" -> node.kind = "ImportDeclaration"
      [] recognizer = "Function" ->
            node.kind \in {"Constructor", "FunctionDeclaration",
                           "MethodDeclaration"}
      [] recognizer = "Export" -> node.kind = "ExportAssignment"
      [] recognizer = "Deconstruct" -> Destructures(node)
      [] recognizer = "Class" -> node.kind = "ClassDeclaration"

Accepting(node) == {r \in 1..Len(Recognizers) : Accepts(Recognizers[r], node)}

\* C25: the classification of a node gives the Info of the first recognizer
\* in the order Variable, Property, Object, Interface, Import, Function,
\* Export, Deconstruct, Class that accepts it, and none for a node none
\* accepts, which is passed over without an error; a parameter or variable
\* declaration with a binding pattern for its name gives a Deconstruct,
\* never a Variable.
C25_FirstRecognizerInOrder ==
    ChildInfosMade =>
        /\ ~classified.raised
        /\ \A t \in 1..Len(Turns) :
              /\ IF Accepting(Turns[t].node) = {}
                 THEN Turns[t].child.kind = "none"
                 ELSE \E r \in Accepting(Turns[t].node) :
                        /\ \A q \in Accepting(Turns[t].node) : r <= q
                        /\ Turns[t].child.kind = Recognizers[r]
              /\ Destructures(Turns[t].node) =>
                    Turns[t].child.kind = "Deconstruct"

\* The doc-comment blocks an entry of the list stands for: its own as a
\* free-standing Doclet entry, that of its doclet as a declaration.
BlocksOf(info) ==
    IF info.kind = "Doclet" THEN {info.block}
    ELSE IF info.doclet.kind = "Doclet" THEN {info.doclet.block}
    ELSE {}

\* C27: no doc-comment block of the source is in the list of getChildInfos
\* twice, as a free-standing entry or as the doclet of a declaration, nodes
\* that classify to none between two declarations or not.
C27_EachBlockAtMostOnce ==
    ChildInfosMade =>
        \A k, h \in 1..Len(classified.infos) :
            k # h => BlocksOf(classified.infos[k])
                        \cap BlocksOf(classified.infos[h]) = {}

====
